---------------------------- MODULE Spec2Model ----------------------------
(***************************************************************************)
(* Model of the Intelixir backend: the news-ingestion pipeline             *)
(* (backend/services/newsService.js), the Post model and its pre-save hook *)
(* (backend/models/index.js) and the post routes that save posts           *)
(* (backend/routes/digest.js, the admin routes).                           *)
(*                                                                         *)
(* Strings that the code parses (the rewriter's answer) are sequences of   *)
(* tokens; a token is one character, or one of the literal marker          *)
(* substrings "TITLE:", "SUMMARY:", "TAGS:".  Strings that the code only   *)
(* compares (urls, article titles, names) are TLA+ strings.                *)
(* engagement is kept in tenths (fixed point), since views weigh 0.1.      *)
(***************************************************************************)
EXTENDS Integers, Sequences, FiniteSets, TLC

\* ------------------------------------------------------------------ bounds

\* longest rewriter answer, in tokens, enumerated exhaustively (AISpec)
MaxTextLen == 5
\* how far past the title cap the long rewriter titles go (AISpec)
MaxOver == 3
\* most articles in one answer of the news source (at most pageSize)
MaxArticles == 2
\* most post-route requests served in one behaviour of PostSpec
MaxUserOps == 2
\* most authoring requests served in one behaviour of MixSpec
MaxAuthoring == 1
\* verification and reset tokens minted for the account
MaxTokens == 2
\* minutes the clock of the auth routes runs
MaxClock == 15
\* requests the frontend sends through its axios instance
MaxClientRequests == 5
\* tokens of an answer of the model to categorizeContent and generateTags
MaxAnswerLen == 2
\* requests to the post routes that may be between lookup and save at once
MaxInFlight == 2
\* requests served while others are in flight
MaxRequests == 3

\* ------------------------------------------------------- program constants

\* newsService.js:164  substring(0, 200)
TitleCap == 200
\* models/index.js:139  title maxlength
TitleMaxLength == 200
\* models/index.js:144  content maxlength
ContentMaxLength == 5000
\* newsService.js:68  pageSize
PageSize == 5

\* JavaScript's undefined / null for a field or a result
Undefined == "<undefined>"

MinOf(S) == CHOOSE x \in S : \A y \in S : x <= y

\* ------------------------------------------------------------ JS strings

Tokens == {"TITLE:", "SUMMARY:", "TAGS:", " ", "\n", ",", "x"}

\* String.prototype.trim's white space, within Tokens
IsSpace(c) == c \in {" ", "\n"}

\* String.prototype.trim
Trim(s) ==
  LET keep == {i \in 1..Len(s) : ~IsSpace(s[i])}
  IN  IF keep = {} THEN <<>>
      ELSE SubSeq(s, MinOf(keep), CHOOSE i \in keep : \A j \in keep : j <= i)

\* String.prototype.substring(0, n)
Substring0(s, n) == SubSeq(s, 1, IF Len(s) < n THEN Len(s) ELSE n)

\* String.prototype.split(sep) for a one-token separator
RECURSIVE Split(_, _)
Split(s, sep) ==
  LET at == {i \in 1..Len(s) : s[i] = sep}
  IN  IF at = {} THEN <<s>>
      ELSE <<SubSeq(s, 1, MinOf(at) - 1)>> \o Split(SubSeq(s, MinOf(at) + 1, Len(s)), sep)

NoMatch == [matched |-> FALSE, group |-> <<>>]

\* text.match(/MARKER (.+)/): leftmost "MARKER" followed by a space and at
\* least one character that is no line terminator; the group is greedy and
\* runs to the end of that line.
MatchLine(text, marker) ==
  LET starts == {i \in 1..Len(text) :
                   /\ text[i] = marker
                   /\ i + 2 <= Len(text)
                   /\ text[i + 1] = " "
                   /\ text[i + 2] # "\n"}
  IN  IF starts = {} THEN NoMatch
      ELSE LET i == MinOf(starts)
               e == MinOf({j \in (i + 2)..(Len(text) + 1) :
                             j = Len(text) + 1 \/ text[j] = "\n"})
           IN  [matched |-> TRUE, group |-> SubSeq(text, i + 2, e - 1)]

\* text.match(/SUMMARY: ([\s\S]+?)(?=TAGS:|$)/): leftmost "SUMMARY:" followed
\* by a space and at least one character of any kind; the group is lazy and
\* stops before the first later "TAGS:" or at the end of the text.
MatchSummary(text) ==
  LET starts == {i \in 1..Len(text) :
                   /\ text[i] = "SUMMARY:"
                   /\ i + 2 <= Len(text)
                   /\ text[i + 1] = " "}
  IN  IF starts = {} THEN NoMatch
      ELSE LET i == MinOf(starts)
               e == MinOf({j \in (i + 3)..(Len(text) + 1) :
                             j = Len(text) + 1 \/ text[j] = "TAGS:"})
           IN  [matched |-> TRUE, group |-> SubSeq(text, i + 2, e - 1)]

\* ------------------------------------------------------ Content Rewriter

\* what model.generateContent / response.text() yields: a text, or a throw
Thrown == <<"<throws>">>

NullResult == [ok |-> FALSE, title |-> <<>>, content |-> <<>>, tags |-> <<>>,
               originalUrl |-> Undefined]

\* mutant: the title is trimmed and not cut
RewrittenTitleUncut(group) == Trim(group)

\* titleMatch[1].trim().substring(0, 200)
RewrittenTitle(group) == Substring0(Trim(group), TitleCap)

\* mutant: && for ||, so one marker is enough
FormatInvalidBoth(titleMatch, summaryMatch) ==
  ~titleMatch.matched /\ ~summaryMatch.matched

\* if (!titleMatch || !summaryMatch) return null
FormatInvalid(titleMatch, summaryMatch) ==
  ~titleMatch.matched \/ ~summaryMatch.matched

\* NewsService.processWithAI after the model call has settled with `text`
processWithAI(article, text) ==
  IF text = Thrown THEN NullResult
  ELSE LET titleMatch   == MatchLine(text, "TITLE:")
           summaryMatch == MatchSummary(text)
           tagsMatch    == MatchLine(text, "TAGS:")
       IN  IF FormatInvalid(titleMatch, summaryMatch) THEN NullResult
           ELSE [ok |-> TRUE,
                 title |-> RewrittenTitle(titleMatch.group),
                 content |-> Trim(summaryMatch.group),
                 tags |-> IF tagsMatch.matched
                          THEN LET parts == Split(tagsMatch.group, ",")
                               IN  [k \in 1..Len(parts) |-> Trim(parts[k])]
                          ELSE <<>>,
                 originalUrl |-> article.url]

\* ------------------------------------------------------------ data model

UserIds == {"root", "alice", "bob"}

\* this.categories, by name (the keywords only shape the query string)
categories == <<"Technology", "Politics", "Business", "Sports",
                "Health", "Science", "Entertainment", "World">>

Urls == {"u1", "u2"}

\* articles the news source may return: two well-formed ones, and one for
\* each way of failing the content test
Articles ==
  {[url |-> u, title |-> "Headline", description |-> "text"] : u \in Urls} \cup
  {[url |-> "u1", title |-> "[Removed]", description |-> "text"],
   [url |-> "u2", title |-> "",          description |-> "text"],
   [url |-> "u1", title |-> "Headline",  description |-> Undefined]}

\* answers of newsApi.v2.everything when the source holds the articles of
\* `pool`: response.articles is missing, or lists up to pageSize of them
\* (the source may list an article twice)
SourceAnswers(pool) ==
  {[present |-> FALSE, articles |-> <<>>]} \cup
  {[present |-> TRUE, articles |-> a] :
     a \in UNION {[1..n -> pool] :
                    n \in 0..(IF MaxArticles < PageSize THEN MaxArticles ELSE PageSize)}}

\* answers of the rewriter the pipeline is run against
TextOk        == <<"TITLE:", " ", "x", "\n", "SUMMARY:", " ", "x", "\n", "TAGS:", " ", "x", ",", "x">>
TextNoSummary == <<"TITLE:", " ", "x", "\n", "TAGS:", " ", "x">>
TextNoTitle   == <<"SUMMARY:", " ", "x", "\n", "TAGS:", " ", "x">>
TextBlankSum  == <<"TITLE:", " ", "x", "\n", "SUMMARY:", " ", " ", "TAGS:", " ", "x">>
RewriterAnswers == {TextOk, TextNoSummary, TextNoTitle, TextBlankSum, Thrown}

NoPost == [title |-> <<>>, content |-> <<>>, author |-> Undefined,
           categories |-> <<>>, isNews |-> FALSE, originalSource |-> Undefined,
           likes |-> <<>>, comments |-> <<>>, shares |-> 0, views |-> 0,
           engagement |-> 0, isActive |-> TRUE, reportedBy |-> <<>>]

\* new Post({...}): the schema defaults for what the caller leaves out
NewPost(title, content, author, cats, isNews, originalSource) ==
  [NoPost EXCEPT !.title = title, !.content = content, !.author = author,
                 !.categories = cats, !.isNews = isNews,
                 !.originalSource = originalSource]

\* the engagement formula of postSchema.pre('save'), in tenths:
\* likes * 3 + comments * 5 + shares * 7 + views * 0.1
EngagementScore(likes, comments, shares, views) ==
  (likes * 30) + (comments * 50) + (shares * 70) + (views * 1)

\* postSchema.pre('save')
PreSave(post) ==
  [post EXCEPT !.engagement =
     EngagementScore(Len(post.likes), Len(post.comments), post.shares, post.views)]

\* postSchema.title: maxlength [200, ...]
TitleTooLong(post) == Len(post.title) > TitleMaxLength

\* the schema validators run by save(): title maxlength, content required
\* and maxlength, author required
ValidationFails(post) ==
  \/ TitleTooLong(post)
  \/ post.content = <<>>
  \/ Len(post.content) > ContentMaxLength
  \/ post.author = Undefined

\* mutant: the query also asks for isActive: true
ExistingActivePost(store, url) ==
  \E i \in 1..Len(store) :
    store[i].originalSource = url /\ store[i].isNews /\ store[i].isActive

\* mutant: the query asks for isNews: false
ExistingUserPost(store, url) ==
  \E i \in 1..Len(store) : store[i].originalSource = url /\ ~store[i].isNews

\* Post.findOne({ originalSource: url, isNews: true })
ExistingPost(store, url) ==
  \E i \in 1..Len(store) : store[i].originalSource = url /\ store[i].isNews

\* !v for a string or undefined
Falsy(v) == v \in {Undefined, ""}

\* mutant: the placeholder title is not tested
MissingContentNoPlaceholder(article) ==
  Falsy(article.title) \/ Falsy(article.description)

\* if (!article.title || !article.description || article.title === '[Removed]')
MissingContent(article) ==
  Falsy(article.title) \/ Falsy(article.description) \/ article.title = "[Removed]"

\* ------------------------------------------------------------------ state

\* the two callers of fetchAndProcessNews: the hourly cron job and the
\* manual trigger POST /api/admin/news/fetch
Runs == {"cron", "manual"}

VARIABLES
  users,        \* User collection: user id -> role, for the stored users
  categoryDb,   \* Category collection: the stored category names (name = id)
  posts,        \* Post collection, in insertion order (index = _id)
  run,          \* per caller: the activation of fetchAndProcessNews
  outstanding,  \* calls issued and not yet settled: [run, call]
  feed,         \* the articles the External News Source holds
  served,       \* requests served so far
  probe,        \* one rewriter answer taken through processWithAI and save
  verified,     \* User collection: the ids of the users with isVerified
  trigger,      \* the request of POST /api/admin/news/fetch being handled
  reply,        \* the response to the latest request to a post route
  conc,         \* post-route requests between their lookup and their save
  auth,         \* the account the auth routes work on, and the clock
  client        \* the frontend AuthProvider and its requests

vars == <<users, categoryDb, posts, run, outstanding, feed, served, probe,
          verified, trigger, reply, conc, auth, client>>

\* pc is the await the activation is suspended at, or idle/returned/rejected.
\* aiText, created, topicLog, open and examined are history: the rewriter's
\* last answer, the posts this run inserted, the topics processCategoryNews
\* was called for, those whose call has not settled, the article indexes
\* examined in the current topic, and (last) the way the latest lookup or
\* source call ended when it ended a topic or an article.
IdleRun ==
  [pc |-> "idle", adminUserId |-> Undefined, topicIdx |-> 0,
   dbCategory |-> Undefined, articles |-> <<>>, artIdx |-> 0,
   success |-> 0, failed |-> 0, doc |-> NoPost,
   aiText |-> <<>>, created |-> 0, topicLog |-> <<>>, open |-> {},
   examined |-> <<>>, last |-> ""]

Finished(rec) == rec.pc \in {"returned", "rejected"}

\* rec, with the way its latest call ended written down
Note(rec, what) == [rec EXCEPT !.last = what]

\* no request of POST /api/admin/news/fetch has arrived.  pc is where the
\* request is: "User.findById" (authMiddleware awaits the user),
\* "fetchAndProcessNews" (the handler awaits the run), "done" (answered).
\* responses is history: what was sent for the request.
NoTrigger == [pc |-> "none", token |-> Undefined, user |-> Undefined,
              responses |-> <<>>]

\* res.status(status).json(...): a response is sent for the request
Respond(t, status, data) ==
  [t EXCEPT !.pc = "done",
            !.responses = Append(@, [status |-> status, data |-> data])]

\* the call an activation suspended at pc is waiting for
Calls == {"User.findOne", "Category.findOne", "newsApi.everything",
          "Post.findOne", "generateContent", "post.save"}

\* the step of run r from rec to next: the call it awaited has settled, and
\* the call it now awaits (if any) is issued
Resume(r, rec, next) ==
  /\ run' = [run EXCEPT ![r] = next]
  /\ outstanding' =
       (outstanding \ {[run |-> r, call |-> rec.pc]}) \cup
       (IF next.pc \in Calls THEN {[run |-> r, call |-> next.pc]} ELSE {})

\* ------------------------------------------------------ Ingestion Pipeline

\* mutant: the loop steps over every other topic
NextTopicIdxSkipping(k) == k + 2

\* for (const category of this.categories): the index after k
NextTopicIdx(k) == k + 1

\* for (const article of response.articles): the index after i
NextArtIdx(i) == i + 1

\* the loop body for topic k up to its first await:
\* processCategoryNews(category, ...) -> await Category.findOne
EnterTopic(rec, k) ==
  [rec EXCEPT !.pc = "Category.findOne", !.topicIdx = k,
              !.dbCategory = Undefined, !.articles = <<>>, !.artIdx = 0,
              !.examined = <<>>,
              !.topicLog = Append(@, categories[k]), !.open = @ \cup {k}]

\* the end of one iteration of the topic loop: the next topic, or
\* return processedCount
AfterTopic(rec) ==
  IF NextTopicIdx(rec.topicIdx) \in 1..Len(categories)
  THEN EnterTopic(rec, NextTopicIdx(rec.topicIdx))
  ELSE [rec EXCEPT !.pc = "returned"]

\* mutant: no catch in the topic loop, the throw reaches the outer catch
TopicThrowsUncaught(rec) ==
  [rec EXCEPT !.pc = "rejected", !.open = @ \ {rec.topicIdx}]

\* mutant: the catch of the topic loop logs the error and counts nothing
TopicThrowsUncounted(rec) ==
  AfterTopic([rec EXCEPT !.open = @ \ {rec.topicIdx}])

\* processCategoryNews throws (lines 116-119); the topic loop catches it,
\* counts it and goes on without the delay (lines 41-44)
TopicThrows(rec) ==
  AfterTopic([rec EXCEPT !.failed = @ + 1, !.open = @ \ {rec.topicIdx}])

\* mutant: a topic that returns is counted as failed
TopicReturnsCounted(rec) ==
  [rec EXCEPT !.pc = "delay", !.open = @ \ {rec.topicIdx},
              !.articles = <<>>, !.artIdx = 0, !.examined = <<>>,
              !.doc = NoPost, !.failed = @ + 1]

\* mutant: a topic that returns is counted as a success
TopicReturnsAsSuccess(rec) ==
  [rec EXCEPT !.pc = "delay", !.open = @ \ {rec.topicIdx},
              !.articles = <<>>, !.artIdx = 0, !.examined = <<>>,
              !.doc = NoPost, !.success = @ + 1]

\* processCategoryNews returns; the loop awaits delay(2000)
TopicReturns(rec) ==
  [rec EXCEPT !.pc = "delay", !.open = @ \ {rec.topicIdx},
              !.articles = <<>>, !.artIdx = 0, !.examined = <<>>,
              !.doc = NoPost]

\* the article loop reaches article i: await Post.findOne(...)
EnterArticle(rec, i) ==
  [rec EXCEPT !.pc = "Post.findOne", !.artIdx = i,
              !.doc = NoPost, !.examined = Append(@, i)]

\* mutant: an article passed over is counted as failed
AfterArticleCounted(rec) ==
  IF NextArtIdx(rec.artIdx) \in 1..Len(rec.articles)
  THEN EnterArticle([rec EXCEPT !.failed = @ + 1], NextArtIdx(rec.artIdx))
  ELSE TopicReturns([rec EXCEPT !.failed = @ + 1])

\* continue / end of the article loop's body
AfterArticle(rec) ==
  IF NextArtIdx(rec.artIdx) \in 1..Len(rec.articles)
  THEN EnterArticle(rec, NextArtIdx(rec.artIdx))
  ELSE TopicReturns(rec)

\* mutant: the failure is logged and not counted
ArticleFailsUncounted(rec) == AfterArticle(rec)

\* mutant: an article that failed is handed to the rewriter again
ArticleRetried(rec) == [rec EXCEPT !.pc = "generateContent"]

\* the inner catch (lines 110-113), and the else branch of line 106
ArticleFails(rec) == AfterArticle([rec EXCEPT !.failed = @ + 1])

\* mutant: the post is built as a user post
NewsPostAsUserPost(processedArticle, categoryId, adminUserId, originalArticle) ==
  NewPost(processedArticle.title, processedArticle.content, adminUserId,
          <<categoryId>>, FALSE, originalArticle.url)

\* new Post({...}) of createNewsPost
NewsPost(processedArticle, categoryId, adminUserId, originalArticle) ==
  NewPost(processedArticle.title, processedArticle.content, adminUserId,
          <<categoryId>>, TRUE, originalArticle.url)

\* fetchAndProcessNews() up to its first await, User.findOne
CallFetch(r) == Resume(r, run[r], [IdleRun EXCEPT !.pc = "User.findOne"])

\* fetchAndProcessNews is called by the cron job, or by a request to the
\* manual trigger that is not followed
StartRun(r) ==
  /\ run[r].pc = "idle"
  /\ CallFetch(r)
  /\ UNCHANGED <<users, categoryDb, posts, feed, served, probe, verified, trigger, reply, conc, auth, client>>

\* what User.findOne({ role: 'admin' }) may resolve to
FindOneAdmin(store) ==
  LET admins == {u \in DOMAIN store : store[u] = "admin"}
  IN  IF admins = {} THEN {Undefined} ELSE admins

\* mutant: the result of the lookup is not tested
AdminMissingUntested(adminUser) == FALSE

\* if (!adminUser)
AdminMissing(adminUser) == adminUser = Undefined

\* User.findOne({ role: 'admin' }) settles: it throws, finds none (both
\* reject the invocation), or finds an admin and the topic loop starts
AdminLookupSettles(r) ==
  /\ run[r].pc = "User.findOne"
  /\ \E threw \in BOOLEAN, adminUser \in FindOneAdmin(users) :
       IF threw \/ AdminMissing(adminUser)
       THEN Resume(r, run[r], [run[r] EXCEPT !.pc = "rejected"])
       ELSE Resume(r, run[r], EnterTopic([run[r] EXCEPT !.adminUserId = adminUser], 1))
  /\ UNCHANGED <<users, categoryDb, posts, feed, served, probe, verified, trigger, reply, conc, auth, client>>

\* mutant: the result of the lookup is not tested
CategoryMissingUntested(store, name) == FALSE

\* Category.findOne({ name: category.name }) resolves to null:
\* if (!dbCategory)
CategoryMissing(store, name) == name \notin store

\* Category.findOne({ name }) settles: throws, finds none (return), or
\* finds the category and the source is queried
CategoryLookupSettles(r) ==
  /\ run[r].pc = "Category.findOne"
  /\ \E threw \in BOOLEAN :
       LET rec  == run[r]
           name == categories[rec.topicIdx]
       IN  IF threw
           THEN Resume(r, rec, Note(TopicThrows(rec), "Category.findOne threw"))
           ELSE IF CategoryMissing(categoryDb, name)
           THEN Resume(r, rec, Note(TopicReturns(rec), "no category"))
           ELSE Resume(r, rec, [rec EXCEPT !.pc = "newsApi.everything",
                                           !.dbCategory = name, !.last = ""])
  /\ UNCHANGED <<users, categoryDb, posts, feed, served, probe, verified, trigger, reply, conc, auth, client>>

\* newsApi.v2.everything settles: throws, answers without articles
\* (return), or the article loop starts
SourceSettles(r) ==
  /\ run[r].pc = "newsApi.everything"
  /\ LET rec == run[r]
     IN  \/ Resume(r, rec, Note(TopicThrows(rec), "source threw"))
         \/ \E response \in SourceAnswers(feed) :
              IF ~response.present \/ Len(response.articles) = 0
              THEN Resume(r, rec, Note(TopicReturns(rec), "no articles"))
              ELSE Resume(r, rec,
                          EnterArticle([rec EXCEPT !.articles = response.articles], 1))
  /\ UNCHANGED <<users, categoryDb, posts, feed, served, probe, verified, trigger, reply, conc, auth, client>>

\* mutant: the content test comes before the test of the lookup's result
SkipReasonRejectFirst(existingPost, missingContent) ==
  IF missingContent THEN "rejected"
  ELSE IF existingPost THEN "exists"
  ELSE ""

\* the two continue statements of the article loop, in the order of the
\* code: if (existingPost) continue, then if (missing content) continue
SkipReason(existingPost, missingContent) ==
  IF existingPost THEN "exists"
  ELSE IF missingContent THEN "rejected"
  ELSE ""

\* Post.findOne settles: throws (counted), finds the article (continue),
\* or not: then the content test, and the rewriter is called
DedupSettles(r) ==
  /\ run[r].pc = "Post.findOne"
  /\ \E threw \in BOOLEAN :
       LET rec     == run[r]
           article == rec.articles[rec.artIdx]
       IN  IF threw
           THEN Resume(r, rec, Note(ArticleFails(rec), "Post.findOne threw"))
           ELSE IF SkipReason(ExistingPost(posts, article.url),
                              MissingContent(article)) # ""
           THEN Resume(r, rec,
                       Note(AfterArticle(rec),
                            SkipReason(ExistingPost(posts, article.url),
                                       MissingContent(article))))
           ELSE Resume(r, rec, [rec EXCEPT !.pc = "generateContent", !.last = ""])
  /\ UNCHANGED <<users, categoryDb, posts, feed, served, probe, verified, trigger, reply, conc, auth, client>>

\* model.generateContent settles and processWithAI returns: null is counted
\* as failed, a result goes to createNewsPost -> await post.save()
RewriteSettles(r) ==
  /\ run[r].pc = "generateContent"
  /\ \E text \in RewriterAnswers :
       LET rec     == [run[r] EXCEPT !.aiText = text]
           article == rec.articles[rec.artIdx]
           processedArticle == processWithAI(article, text)
       IN  IF ~processedArticle.ok THEN Resume(r, run[r], ArticleFails(rec))
           ELSE Resume(r, run[r],
                  [rec EXCEPT !.pc = "post.save",
                              !.doc = NewsPost(processedArticle, rec.dbCategory,
                                               rec.adminUserId, article)])
  /\ UNCHANGED <<users, categoryDb, posts, feed, served, probe, verified, trigger, reply, conc, auth, client>>

\* mutant: success is counted before the save has settled
AfterSaveCountedEarly(rec, stored) ==
  IF stored THEN AfterArticle([rec EXCEPT !.success = @ + 1])
  ELSE ArticleFails([rec EXCEPT !.success = @ + 1])

\* lines 103-104 and 110-113: createNewsPost resolved (processedCount
\* .success++) or threw (the inner catch counts it as failed)
AfterSave(rec, stored) ==
  IF stored THEN AfterArticle([rec EXCEPT !.success = @ + 1])
  ELSE ArticleFails(rec)

\* post.save() settles: a validation or database error is rethrown by
\* createNewsPost; else the post is stored
SaveSettles(r) ==
  /\ run[r].pc = "post.save"
  /\ \E threw \in BOOLEAN :
       LET rec    == run[r]
           stored == ~(threw \/ ValidationFails(rec.doc))
       IN  /\ posts' = IF stored THEN Append(posts, PreSave(rec.doc)) ELSE posts
           /\ Resume(r, rec,
                     AfterSave([rec EXCEPT !.created = IF stored THEN @ + 1 ELSE @],
                               stored))
  /\ UNCHANGED <<users, categoryDb, feed, served, probe, verified, trigger, reply, conc, auth, client>>

\* delay(2000) elapses
DelayElapses(r) ==
  /\ run[r].pc = "delay"
  /\ Resume(r, run[r], AfterTopic(Note(run[r], "")))
  /\ UNCHANGED <<users, categoryDb, posts, feed, served, probe, verified, trigger, reply, conc, auth, client>>

\* mutant: no catch around the await, every run is answered as a success
RouteResultUncaught(rec) ==
  [status |-> 200, data |-> [success |-> rec.success, failed |-> rec.failed]]

\* POST /news/fetch after its await: res.json({ status: 'success', data:
\* result }) when the run returned, res.status(500).json(...) in the catch
RouteResult(rec) ==
  IF rec.pc = "returned"
  THEN [status |-> 200, data |-> [success |-> rec.success, failed |-> rec.failed]]
  ELSE [status |-> 500, data |-> Undefined]

\* the caller gets the result: the cron job logs it, the route responds
RunSettles(r) ==
  /\ Finished(run[r])
  /\ Resume(r, run[r], IdleRun)
  /\ trigger' = IF r = "manual" /\ trigger.pc = "fetchAndProcessNews"
                THEN Respond(trigger, RouteResult(run[r]).status,
                             RouteResult(run[r]).data)
                ELSE trigger
  /\ UNCHANGED <<users, categoryDb, posts, feed, served, probe, verified, reply, conc, auth, client>>

PipelineStep(r) ==
  \/ AdminLookupSettles(r)
  \/ CategoryLookupSettles(r)
  \/ SourceSettles(r)
  \/ DedupSettles(r)
  \/ RewriteSettles(r)
  \/ SaveSettles(r)
  \/ DelayElapses(r)
  \/ RunSettles(r)

NoRunActive == \A r \in Runs : run[r].pc = "idle"

\* ------------------------------------------------------------ post routes
\* Each handler is served whole (one request at a time).  A request names a
\* post by its index; 0 stands for an id no post has.  xss() leaves the
\* strings of this model as they are: none holds markup.

\* no request to a post route has been answered
NoReply == [route |-> "", post |-> 0, status |-> 0]

\* the responses of the post routes are not followed
Unobserved == [route |-> "unobserved", post |-> 0, status |-> 0]

Stored(i) == i \in 1..Len(posts)

\* mutant: the write goes around the pre-save hook (an update query)
SaveAtUnhooked(store, i, doc, threw) ==
  IF threw \/ ValidationFails(doc) THEN store
  ELSE [store EXCEPT ![i] = doc]

\* await post.save() on a loaded document: validation, the pre-save hook,
\* the write; a rejected save leaves the stored post as it was
SaveAt(store, i, doc, threw) ==
  IF threw \/ ValidationFails(doc) THEN store
  ELSE [store EXCEPT ![i] = PreSave(doc)]

Serve == served' = served + 1

\* request bodies of POST /api/posts and PUT /api/posts/:id
PostBodies ==
  {[content |-> <<>>,    title |-> <<>>,    categories |-> <<>>],
   [content |-> <<"x">>, title |-> <<"x">>, categories |-> <<"Technology">>],
   [content |-> <<"x", "x">>, title |-> <<>>, categories |-> <<>>]}

\* ---------------------------------------------------- auxiliary AI calls
\* categorizeContent and generateTags of NewsService.  An answer of the
\* model is a sequence of the tokens below; a category name is spelled in
\* them, in lower case.

AnswerTokens == {"Tech", "no", "logy", ",", " ", "("}

Spelled(name) ==
  CASE name = "Technology" -> <<"tech", "no", "logy">>
    [] name = "World" -> <<"world">>
    [] OTHER -> <<name>>

\* String.prototype.toLowerCase, token by token
ToLowerCase(s) == [k \in 1..Len(s) |-> IF s[k] = "Tech" THEN "tech" ELSE s[k]]

\* the characters of a token
CharCount(t) ==
  CASE t \in {"Tech", "tech", "logy"} -> 4
    [] t = "no" -> 2
    [] t = "world" -> 5
    [] t = "incomprehensibilities" -> 21
    [] OTHER -> 1

\* String.prototype.length
RECURSIVE Length(_)
Length(s) == IF s = <<>> THEN 0 ELSE CharCount(Head(s)) + Length(Tail(s))

\* new RegExp(pattern, 'i') throws a SyntaxError
BadPattern(pattern) == \E k \in 1..Len(pattern) : pattern[k] = "("

\* { name: { $regex: new RegExp(pattern, 'i') } }: the pattern occurs
\* somewhere in the name, letter case aside
RegExpFinds(pattern, name) ==
  LET p == ToLowerCase(pattern)
      n == ToLowerCase(Spelled(name))
  IN  \E at \in 0..(Len(n) - Len(p)) : \A k \in 1..Len(p) : n[at + k] = p[k]

\* mutant: a failure of the model call or of the lookup is thrown on
categorizeContentRethrows(text, threw) ==
  IF text = Thrown \/ threw \/ BadPattern(Trim(text)) THEN {Thrown}
  ELSE {<<c>> : c \in {d \in categoryDb : RegExpFinds(Trim(text), d)}} \cup {<<>>}

\* newsService.categorizeContent, for the answer of the model and for a
\* Category.findOne that throws or not: what it may return ([] from the
\* catch, [] for no match, else the id of the one category findOne picked)
categorizeContent(text, threw) ==
  IF text = Thrown \/ threw \/ BadPattern(Trim(text)) THEN {<<>>}
  ELSE LET category == Trim(text)
           matched == {c \in categoryDb : RegExpFinds(category, c)}
       IN  IF matched = {} THEN {<<>>} ELSE {<<c>> : c \in matched}

\* newsService.js:305  tag.length <= 20
TagMaxLength == 20

\* newsService.generateTags for the answer of the model
generateTags(text) ==
  IF text = Thrown THEN <<>>
  ELSE LET parts == Split(Trim(text), ",")
           tags == [k \in 1..Len(parts) |-> ToLowerCase(Trim(parts[k]))]
           Kept(tag) == Length(tag) > 0 /\ Length(tag) <= TagMaxLength
       IN  SelectSeq(tags, Kept)

\* answers of the model to the prompts a create-post request sends
CategoryReplies == {Thrown, <<>>, <<"Tech">>, <<",">>}

\* what categorizeContent hands the create-post handler
CategorizeAnswers ==
  UNION {categorizeContent(text, threw) : text \in CategoryReplies, threw \in BOOLEAN}

\* what generateTags hands the create-post handler
TagAnswers == {generateTags(text) : text \in CategoryReplies}

\* ------------------------------------------------ post routes, one by one

\* mutant: an inactive post is found
NotFoundStoredOnly(i) == ~Stored(i)

\* if (!post || !post.isActive)
NotFound(i) == ~Stored(i) \/ ~posts[i].isActive

\* what a handler leaves behind: the stored posts and the status it answers
Outcome(store, status) == [store |-> store, status |-> status]

\* the handler's await post.save() and the answer after it: ok when the
\* save went through, 500 from the catch when it threw
Saved(i, doc, threw, ok) ==
  Outcome(SaveAt(posts, i, doc, threw),
          IF threw \/ ValidationFails(doc) THEN 500 ELSE ok)

\* the response is noted where a specification follows it
Replies(route, i, status) ==
  IF reply = Unobserved THEN reply
  ELSE [route |-> route, post |-> i, status |-> status]

\* the request is served: the store and the response it leaves
Answers(route, i, out) ==
  /\ Serve
  /\ posts' = out.store
  /\ reply' = Replies(route, i, out.status)
  /\ UNCHANGED <<users, categoryDb, run, outstanding, feed, probe, verified, trigger, conc, auth, client>>

\* the call of a handler that throws, if one does: Post.findById or
\* post.save()
Throws == {"none", "findById", "save"}

\* GET /api/posts/:id
GetPostOutcome(i, thrown) ==
  IF thrown = "findById" THEN Outcome(posts, 500)
  ELSE IF NotFound(i) THEN Outcome(posts, 404)
  ELSE Saved(i, [posts[i] EXCEPT !.views = @ + 1], thrown = "save", 200)

\* the request is served with one of the outcomes it can have
GetPost(i) ==
  \E out \in {GetPostOutcome(i, thrown) :
               thrown \in Throws} :
    Answers("GET /:id", i, out)

\* POST /api/posts: the categories of the body if it has any, else those of
\* categorizeContent unless it threw; the tags of generateTags, [] if it
\* threw (tags: [String] takes any list of strings, and the posts of this
\* model do not keep them); then post.save()
CreatePostOutcome(u, body, aiCategories, aiTags, threw) ==
  LET postCategories == body.categories
      doc == NewPost(body.title, body.content, u,
                     IF Len(postCategories) = 0 /\ aiCategories # Thrown
                     THEN aiCategories ELSE postCategories,
                     FALSE, Undefined)
  IN  IF Len(Trim(body.content)) = 0 THEN Outcome(posts, 400)
      ELSE IF Len(body.content) > ContentMaxLength THEN Outcome(posts, 400)
      ELSE IF threw \/ ValidationFails(doc) THEN Outcome(posts, 500)
      ELSE Outcome(Append(posts, PreSave(doc)), 201)

\* the request is served with one of the outcomes it can have
CreatePost(u) ==
  \E out \in {CreatePostOutcome(u, body, aiCategories, aiTags, threw) :
               body \in PostBodies, aiCategories \in CategorizeAnswers,
               aiTags \in TagAnswers, threw \in BOOLEAN} :
    Answers("POST /", 0, out)

\* mutant: any account with a role passes
NotAuthorizedLax(u, owner) == owner # u /\ users[u] \notin {"admin", "user"}

\* post.author !== req.user._id && req.user.role !== 'admin'
NotAuthorized(u, owner) == owner # u /\ users[u] # "admin"

\* PUT /api/posts/:id
UpdatePostOutcome(u, i, body, thrown) ==
  IF Len(Trim(body.content)) = 0 THEN Outcome(posts, 400)
  ELSE IF thrown = "findById" THEN Outcome(posts, 500)
  ELSE IF ~Stored(i) THEN Outcome(posts, 404)
  ELSE IF NotAuthorized(u, posts[i].author) THEN Outcome(posts, 403)
  ELSE Saved(i,
             [posts[i] EXCEPT
                !.content = body.content,
                !.title = IF Len(body.title) > 0 THEN body.title ELSE @,
                !.categories = IF Len(body.categories) > 0
                               THEN body.categories ELSE @],
             thrown = "save", 200)

\* the request is served with one of the outcomes it can have
UpdatePost(u, i) ==
  \E out \in {UpdatePostOutcome(u, i, body, thrown) :
               body \in PostBodies, thrown \in Throws} :
    Answers("PUT /:id", i, out)

\* DELETE /api/posts/:id
DeletePostOutcome(u, i, thrown) ==
  IF thrown = "findById" THEN Outcome(posts, 500)
  ELSE IF ~Stored(i) THEN Outcome(posts, 404)
  ELSE IF NotAuthorized(u, posts[i].author) THEN Outcome(posts, 403)
  ELSE Saved(i, [posts[i] EXCEPT !.isActive = FALSE], thrown = "save", 200)

\* the request is served with one of the outcomes it can have
DeletePost(u, i) ==
  \E out \in {DeletePostOutcome(u, i, thrown) :
               thrown \in Throws} :
    Answers("DELETE /:id", i, out)

\* POST /api/posts/:id/like
LikePostOutcome(u, i, thrown) ==
  IF thrown = "findById" THEN Outcome(posts, 500)
  ELSE IF NotFound(i) THEN Outcome(posts, 404)
  ELSE LET likes == posts[i].likes
           found == {k \in 1..Len(likes) : likes[k] = u}
       IN  Saved(i,
             [posts[i] EXCEPT !.likes =
                IF found # {}
                THEN SubSeq(likes, 1, MinOf(found) - 1) \o
                     SubSeq(likes, MinOf(found) + 1, Len(likes))
                ELSE Append(likes, u)],
             thrown = "save", 200)

\* the request is served with one of the outcomes it can have
LikePost(u, i) ==
  \E out \in {LikePostOutcome(u, i, thrown) :
               thrown \in Throws} :
    Answers("POST /:id/like", i, out)

\* POST /api/posts/:id/comment
CommentPostOutcome(u, i, content, thrown) ==
  IF Len(Trim(content)) = 0 THEN Outcome(posts, 400)
  ELSE IF thrown = "findById" THEN Outcome(posts, 500)
  ELSE IF NotFound(i) THEN Outcome(posts, 404)
  ELSE Saved(i,
             [posts[i] EXCEPT !.comments =
                Append(@, [user |-> u, content |-> content])],
             thrown = "save", 201)

\* the request is served with one of the outcomes it can have
CommentPost(u, i) ==
  \E out \in {CommentPostOutcome(u, i, content, thrown) :
               content \in {<<>>, <<"x">>}, thrown \in Throws} :
    Answers("POST /:id/comment", i, out)

\* DELETE /api/posts/:id/comment/:commentId
DeleteCommentOutcome(u, i, k, thrown) ==
  IF thrown = "findById" THEN Outcome(posts, 500)
  ELSE IF NotFound(i) THEN Outcome(posts, 404)
  ELSE IF k \notin 1..Len(posts[i].comments) THEN Outcome(posts, 404)
  ELSE IF NotAuthorized(u, posts[i].comments[k].user) THEN Outcome(posts, 403)
  ELSE LET comments == posts[i].comments
       IN  Saved(i,
             [posts[i] EXCEPT !.comments =
                SubSeq(comments, 1, k - 1) \o
                SubSeq(comments, k + 1, Len(comments))],
             thrown = "save", 200)

\* the request is served with one of the outcomes it can have
DeleteComment(u, i, k) ==
  \E out \in {DeleteCommentOutcome(u, i, k, thrown) :
               thrown \in Throws} :
    Answers("DELETE /:id/comment/:commentId", i, out)

\* POST /api/posts/:id/share
SharePostOutcome(u, i, thrown) ==
  IF thrown = "findById" THEN Outcome(posts, 500)
  ELSE IF NotFound(i) THEN Outcome(posts, 404)
  ELSE Saved(i, [posts[i] EXCEPT !.shares = @ + 1], thrown = "save", 200)

\* the request is served with one of the outcomes it can have
SharePost(u, i) ==
  \E out \in {SharePostOutcome(u, i, thrown) :
               thrown \in Throws} :
    Answers("POST /:id/share", i, out)

\* the reason of a report, as body('reason').trim().isLength({min: 1})
\* takes it
ReportReasons == {<<>>, <<" ">>, <<"x">>}

\* POST /api/posts/:id/report
ReportPostOutcome(u, i, reason, thrown) ==
  IF Len(Trim(reason)) = 0 THEN Outcome(posts, 400)
  ELSE IF thrown = "findById" THEN Outcome(posts, 500)
  ELSE IF NotFound(i) THEN Outcome(posts, 404)
  ELSE IF \E k \in 1..Len(posts[i].reportedBy) : posts[i].reportedBy[k] = u
       THEN Outcome(posts, 400)
  ELSE Saved(i, [posts[i] EXCEPT !.reportedBy = Append(@, u)], thrown = "save", 200)

\* the request is served with one of the outcomes it can have
ReportPost(u, i) ==
  \E out \in {ReportPostOutcome(u, i, reason, thrown) :
               reason \in ReportReasons, thrown \in Throws} :
    Answers("POST /:id/report", i, out)

\* PUT /api/admin/posts/:id/status (behind adminMiddleware)
AdminSetPostStatusOutcome(u, i, isActive, thrown) ==
  IF users[u] # "admin" THEN Outcome(posts, 403)
  ELSE IF thrown = "findById" THEN Outcome(posts, 500)
  ELSE IF ~Stored(i) THEN Outcome(posts, 404)
  ELSE Saved(i, [posts[i] EXCEPT !.isActive = isActive], thrown = "save", 200)

\* the request is served with one of the outcomes it can have
AdminSetPostStatus(u, i) ==
  \E out \in {AdminSetPostStatusOutcome(u, i, isActive, thrown) :
               isActive \in BOOLEAN, thrown \in Throws} :
    Answers("PUT /admin/posts/:id/status", i, out)

\* the requests that can change which posts exist, who may see them, or
\* what they say
AuthoringRequest ==
  \E u \in DOMAIN users :
    \/ CreatePost(u)
    \/ \E i \in 0..Len(posts) : UpdatePost(u, i)
    \/ \E i \in 0..Len(posts) : DeletePost(u, i)
    \/ \E i \in 0..Len(posts) : AdminSetPostStatus(u, i)

\* the requests that change a post's counters and lists
EngagementRequest ==
  \E i \in 0..Len(posts) :
    \/ GetPost(i)
    \/ \E u \in DOMAIN users :
         \/ LikePost(u, i)
         \/ CommentPost(u, i)
         \/ \E k \in 0..(IF Stored(i) THEN Len(posts[i].comments) ELSE 0) :
              DeleteComment(u, i, k)
         \/ SharePost(u, i)
         \/ ReportPost(u, i)

\* ---------------------------------------------------- the manual trigger
\* router.use(authMiddleware); router.use(adminMiddleware);
\* router.post('/news/fetch', ...).  One request is followed at a time.

\* what the Authorization header may carry: no bearer token, a token
\* jwt.verify rejects, or a token verified for a user id
BearerTokens == {Undefined, "invalid", "expired"} \cup UserIds

\* jwt.verify(token, secret) throws
VerifyThrows(token) == token \in {"invalid", "expired"}

\* mutant: the role is not looked at
AdminDeniedNever(role) == FALSE

\* adminMiddleware: if (req.user.role !== 'admin')
AdminDenied(role) == role # "admin"

\* a request arrives; authMiddleware runs to its first response or to
\* await User.findById
TriggerArrives ==
  /\ trigger.pc \in {"none", "done"}
  /\ Serve
  /\ \E token \in BearerTokens :
       LET t == [NoTrigger EXCEPT !.token = token]
       IN  trigger' = IF token = Undefined THEN Respond(t, 401, Undefined)
                      ELSE IF VerifyThrows(token) THEN Respond(t, 401, Undefined)
                      ELSE [t EXCEPT !.pc = "User.findById"]
  /\ UNCHANGED <<users, categoryDb, posts, run, outstanding, feed, probe, verified, reply, conc, auth, client>>

\* User.findById settles: it throws (the inner catch answers 401), finds
\* no user or an unverified one (401); else next(): adminMiddleware answers
\* 403, or the handler calls fetchAndProcessNews and awaits it
AuthSettles ==
  /\ trigger.pc = "User.findById"
  /\ \E threw \in BOOLEAN :
       LET id == trigger.token
       IN  IF threw \/ id \notin DOMAIN users \/ id \notin verified
           THEN /\ trigger' = Respond(trigger, 401, Undefined)
                /\ UNCHANGED <<run, outstanding, reply, conc, auth, client>>
           ELSE IF AdminDenied(users[id])
           THEN /\ trigger' = Respond([trigger EXCEPT !.user = id], 403, Undefined)
                /\ UNCHANGED <<run, outstanding, reply, conc, auth, client>>
           ELSE /\ run["manual"].pc = "idle"
                /\ trigger' = [trigger EXCEPT !.user = id, !.pc = "fetchAndProcessNews"]
                /\ CallFetch("manual")
  /\ UNCHANGED <<users, categoryDb, posts, feed, served, probe, verified, reply, conc, auth, client>>

\* ------------------------------------------- one article, rewritten alone
\* processWithAI and createNewsPost applied to one article for one answer of
\* the rewriter: the path of lines 99-108 without the loops around it.

ProbeArticle == [url |-> "u1", title |-> "Headline", description |-> "text"]

\* processWithAI(article, categoryName) returns
ProbeRewrite ==
  /\ probe.pc = "generateContent"
  /\ LET processedArticle == processWithAI(ProbeArticle, probe.text)
     IN  probe' = [probe EXCEPT !.result = processedArticle,
                                !.pc = IF processedArticle.ok THEN "post.save"
                                       ELSE "null"]
  /\ UNCHANGED <<users, categoryDb, posts, run, outstanding, feed, served, verified, trigger, reply, conc, auth, client>>

\* createNewsPost(processedArticle, categoryId, adminUserId, article)
\* resolves or throws
ProbeSave ==
  /\ probe.pc = "post.save"
  /\ ~ExistingPost(posts, ProbeArticle.url)
  /\ \E threw \in BOOLEAN, adminUser \in FindOneAdmin(users), dbCategory \in categoryDb :
       LET doc == NewsPost(probe.result, dbCategory, adminUser, ProbeArticle)
       IN  IF threw \/ ValidationFails(doc)
           THEN /\ posts' = posts
                /\ probe' = [probe EXCEPT !.pc = IF ~threw /\ TitleTooLong(doc)
                                                 THEN "title rejected"
                                                 ELSE "save threw"]
           ELSE /\ posts' = Append(posts, PreSave(doc))
                /\ probe' = [probe EXCEPT !.pc = "saved"]
  /\ UNCHANGED <<users, categoryDb, run, outstanding, feed, served, verified, trigger, reply, conc, auth, client>>


\* ------------------------------------- post routes, request by request
\* The like, comment, share and view handlers as they run when requests
\* overlap: each awaits Post.findById, changes the document it was given,
\* and awaits post.save(), which writes the paths the handler changed.

Slots == 1..MaxInFlight

IdleSlot == [pc |-> "idle", route |-> "", user |-> Undefined, i |-> 0,
             loaded |-> NoPost, doc |-> NoPost]

\* no request is in flight; ok counts the share and view requests answered
\* with success
NoConc == [slots |-> [s \in Slots |-> IdleSlot], ok |-> [share |-> 0, view |-> 0]]

ConcRoutes == {"like", "comment", "share", "view"}

\* the handler's change to the document it loaded
Changed(route, user, loaded) ==
  CASE route = "like" ->
         LET found == {k \in 1..Len(loaded.likes) : loaded.likes[k] = user}
         IN  [loaded EXCEPT !.likes =
                IF found # {}
                THEN SubSeq(@, 1, MinOf(found) - 1) \o SubSeq(@, MinOf(found) + 1, Len(@))
                ELSE Append(@, user)]
    [] route = "comment" ->
         [loaded EXCEPT !.comments = Append(@, [user |-> user, content |-> <<"x">>])]
    [] route = "share" -> [loaded EXCEPT !.shares = @ + 1]
    [] route = "view" -> [loaded EXCEPT !.views = @ + 1]

\* save() of a document whose array was spliced sets the whole array and
\* is refused (VersionError) when the stored arrays are no longer those
\* that were loaded
Stale(stored, loaded, doc) ==
  /\ Len(doc.likes) < Len(loaded.likes)
  /\ stored.likes # loaded.likes \/ stored.comments # loaded.comments

\* what save() writes: the paths that differ from the loaded document; an
\* element pushed onto an array is pushed onto the stored array, a counter
\* and the engagement of the pre-save hook are set to the document's value
Written(stored, loaded, doc) ==
  LET hooked == PreSave(doc)
  IN  [stored EXCEPT
         !.likes = IF Len(doc.likes) > Len(loaded.likes)
                   THEN Append(@, doc.likes[Len(doc.likes)])
                   ELSE IF Len(doc.likes) < Len(loaded.likes) THEN doc.likes
                   ELSE @,
         !.comments = IF Len(doc.comments) > Len(loaded.comments)
                      THEN Append(@, doc.comments[Len(doc.comments)])
                      ELSE @,
         !.shares = IF doc.shares # loaded.shares THEN doc.shares ELSE @,
         !.views = IF doc.views # loaded.views THEN doc.views ELSE @,
         !.engagement = IF hooked.engagement # loaded.engagement
                        THEN hooked.engagement ELSE @]

\* a request arrives and its Post.findById settles: 404 for no post or an
\* inactive one, 500 when the lookup throws; else the handler changes the
\* document and awaits save()
LookupSettles(s, route, user, i) ==
  /\ conc.slots[s].pc = "idle"
  /\ Serve
  /\ \E threw \in BOOLEAN :
       IF threw \/ NotFound(i)
       THEN /\ reply' = Replies(route, i, IF threw THEN 500 ELSE 404)
            /\ conc' = conc
       ELSE /\ reply' = reply
            /\ conc' = [conc EXCEPT !.slots[s] =
                          [pc |-> "post.save", route |-> route, user |-> user,
                           i |-> i, loaded |-> posts[i],
                           doc |-> Changed(route, user, posts[i])]]
  /\ UNCHANGED <<users, categoryDb, posts, run, outstanding, feed, probe,
                 verified, trigger, auth, client>>

\* the save() of the request in slot s settles and the handler responds
WriteSettles(s) ==
  /\ conc.slots[s].pc = "post.save"
  /\ \E threw \in BOOLEAN :
       LET req    == conc.slots[s]
           stored == posts[req.i]
           fails  == threw \/ ValidationFails(req.doc)
                           \/ Stale(stored, req.loaded, req.doc)
       IN  /\ posts' = IF fails THEN posts
                       ELSE [posts EXCEPT ![req.i] = Written(stored, req.loaded, req.doc)]
           /\ reply' = Replies(req.route, req.i, IF fails THEN 500 ELSE 200)
           /\ conc' = [conc EXCEPT
                         !.slots[s] = IdleSlot,
                         !.ok.share = IF ~fails /\ req.route = "share" THEN @ + 1 ELSE @,
                         !.ok.view = IF ~fails /\ req.route = "view" THEN @ + 1 ELSE @]
  /\ UNCHANGED <<users, categoryDb, run, outstanding, feed, served, probe,
                 verified, trigger, auth, client>>

\* ------------------------------------------------------------ auth routes
\* register, verify-email, resend-verification, login, forgot-password and
\* reset-password, and the admin's PUT /users/:id/status, on one account,
\* each request served whole.  A token is the number it was minted with;
\* minted keeps, for each, its kind, the time it was minted at and what
\* became of it; 0 is no token.  The clock counts minutes.

\* digest.js:455  Date.now() + 10 * 60 * 1000
ResetWindow == 10

NoUser == [exists |-> FALSE, isVerified |-> FALSE, verificationToken |-> 0,
           password |-> <<>>, passwordResetToken |-> <<>>,
           passwordResetExpires |-> 0]

NoAuth == [user |-> NoUser, now |-> 0, minted |-> <<>>, changes |-> <<>>,
           last |-> [route |-> "", status |-> 0, issued |-> FALSE]]

\* the call of a handler that throws, if one does: the lookup of the user
\* or user.save()
AuthThrows == {"none", "findOne", "save"}

\* crypto.createHash('sha256').update(token).digest('hex')
Hash(token) == <<"sha256", token>>

\* bcrypt.hash(password, 12) of userSchema.pre('save')
Bcrypt(password) == <<"bcrypt", password>>

\* the passwords a request may carry; the first fails the validation of
\* reset-password
Passwords == {"weak", "Secret1", "Secret2"}

\* crypto.randomBytes(32).toString('hex'): a token not minted before
Mint(a, kind) ==
  [a EXCEPT !.minted = Append(@, [kind |-> kind, at |-> a.now, fate |-> "live",
                                  again |-> FALSE])]

Fate(a, token, fate) ==
  IF token \in 1..Len(a.minted) THEN [a EXCEPT !.minted[token].fate = fate] ELSE a

\* the response: its status, and whether it carries an access token and
\* the refresh cookie
Says(a, route, status) ==
  [a EXCEPT !.last = [route |-> route, status |-> status,
                      issued |-> route = "login" /\ status = 200]]

\* POST /api/auth/register
RegisterOutcome(a, password, thrown) ==
  IF thrown = "findOne" THEN Says(a, "register", 500)
  ELSE IF a.user.exists THEN Says(a, "register", 400)
  ELSE IF thrown = "save" THEN Says(a, "register", 500)
  ELSE LET verificationToken == Len(a.minted) + 1
       IN  Says([Mint(a, "verify") EXCEPT
                   !.user = [NoUser EXCEPT !.exists = TRUE,
                                           !.verificationToken = verificationToken,
                                           !.password = Bcrypt(password)]],
                "register", 201)

\* mutant: isVerified is not looked at
LoginOutcomeUnverified(a, password, thrown) ==
  IF thrown = "findOne" THEN Says(a, "login", 500)
  ELSE IF ~a.user.exists THEN Says(a, "login", 401)
  ELSE IF a.user.password # Bcrypt(password) THEN Says(a, "login", 401)
  ELSE IF thrown = "save" THEN Says(a, "login", 500)
  ELSE Says(a, "login", 200)

\* POST /api/auth/login
LoginOutcome(a, password, thrown) ==
  IF thrown = "findOne" THEN Says(a, "login", 500)
  ELSE IF ~a.user.exists THEN Says(a, "login", 401)
  ELSE IF a.user.password # Bcrypt(password) THEN Says(a, "login", 401)
  ELSE IF ~a.user.isVerified THEN Says(a, "login", 401)
  ELSE IF thrown = "save" THEN Says(a, "login", 500)
  ELSE Says(a, "login", 200)

\* GET /api/auth/verify-email/:token
VerifyEmailOutcome(a, token, thrown) ==
  IF thrown = "findOne" THEN Says(a, "verify-email", 500)
  ELSE IF ~a.user.exists \/ a.user.verificationToken # token
  THEN Says(a, "verify-email", 400)
  ELSE IF thrown = "save" THEN Says(a, "verify-email", 500)
  ELSE Says(Fate([a EXCEPT !.user.isVerified = TRUE,
                           !.user.verificationToken = 0], token, "used"),
            "verify-email", 200)

\* POST /api/auth/resend-verification
ResendVerificationOutcome(a, thrown, mailFails) ==
  IF thrown = "findOne" THEN Says(a, "resend-verification", 500)
  ELSE IF ~a.user.exists THEN Says(a, "resend-verification", 404)
  ELSE IF a.user.isVerified THEN Says(a, "resend-verification", 400)
  ELSE IF thrown = "save" THEN Says(a, "resend-verification", 500)
  ELSE LET verificationToken == Len(a.minted) + 1
           replaced == Fate(Mint(a, "verify"), a.user.verificationToken, "replaced")
       IN  Says([replaced EXCEPT !.user.verificationToken = verificationToken],
                "resend-verification", IF mailFails THEN 500 ELSE 200)

\* PUT /api/admin/users/:id/status
AdminSetUserStatusOutcome(a, isVerified, thrown) ==
  IF thrown = "findOne" THEN Says(a, "users/:id/status", 500)
  ELSE IF ~a.user.exists THEN Says(a, "users/:id/status", 404)
  ELSE IF thrown = "save" THEN Says(a, "users/:id/status", 500)
  ELSE Says([a EXCEPT !.user.isVerified = isVerified], "users/:id/status", 200)

\* every reset token minted so far has seen a later forgot-password request
AskedAgain(a) ==
  [a EXCEPT !.minted = [t \in 1..Len(@) |->
                          IF @[t].kind = "reset" THEN [@[t] EXCEPT !.again = TRUE]
                          ELSE @[t]]]

\* the reset token the account holds, 0 for none
Held(a) ==
  LET held == {t \in 1..Len(a.minted) : a.user.passwordResetToken = Hash(t)}
  IN  IF held = {} THEN 0 ELSE MinOf(held)

\* POST /api/auth/forgot-password; thrown "clear" is the save() in the
\* catch of the failed email
ForgotPasswordOutcome(a, thrown, mailFails) ==
  IF thrown = "findOne" THEN Says(AskedAgain(a), "forgot-password", 500)
  ELSE IF ~a.user.exists THEN Says(a, "forgot-password", 200)
  ELSE IF thrown = "save" THEN Says(AskedAgain(a), "forgot-password", 500)
  ELSE LET resetToken == Len(a.minted) + 1
           replaced == Fate(Mint(AskedAgain(a), "reset"), Held(a), "replaced")
           stored == [replaced EXCEPT
                        !.user.passwordResetToken = Hash(resetToken),
                        !.user.passwordResetExpires = a.now + ResetWindow]
       IN  IF ~mailFails THEN Says(stored, "forgot-password", 200)
           ELSE IF thrown = "clear"
           THEN Says(Fate(stored, resetToken, "unsent"), "forgot-password", 500)
           ELSE Says(Fate([stored EXCEPT !.user.passwordResetToken = <<>>,
                                         !.user.passwordResetExpires = 0],
                          resetToken, "unsent"),
                     "forgot-password", 500)

\* mutant: the expiry is not part of the query
ResetTokenFoundAnyTime(a, token) ==
  a.user.exists /\ a.user.passwordResetToken = Hash(token)

\* User.findOne({ passwordResetToken: hashedToken,
\*                passwordResetExpires: { $gt: Date.now() } })
ResetTokenFound(a, token) ==
  /\ a.user.exists
  /\ a.user.passwordResetToken = Hash(token)
  /\ a.user.passwordResetExpires > a.now

\* POST /api/auth/reset-password
ResetPasswordOutcome(a, token, password, thrown) ==
  IF password = "weak" THEN Says(a, "reset-password", 400)
  ELSE IF thrown = "findOne" THEN Says(a, "reset-password", 500)
  ELSE IF ~ResetTokenFound(a, token) THEN Says(a, "reset-password", 400)
  ELSE IF thrown = "save" THEN Says(a, "reset-password", 500)
  ELSE Says(Fate([a EXCEPT !.user.password = Bcrypt(password),
                           !.user.passwordResetToken = <<>>,
                           !.user.passwordResetExpires = 0,
                           !.changes = Append(@, [token |-> token, at |-> a.now])],
                 token, "used"),
            "reset-password", 200)

\* a request to an auth route is served
AuthServes(outcomes) ==
  /\ \E after \in outcomes : auth' = after
  /\ UNCHANGED <<users, categoryDb, posts, run, outstanding, feed, served, probe,
                 verified, trigger, reply, conc, client>>

\* the tokens a request may present: those minted and one that never was
Presented == 1..(Len(auth.minted) + 1)

Register ==
  /\ Len(auth.minted) < MaxTokens
  /\ AuthServes({RegisterOutcome(auth, password, thrown) :
                   password \in {"Secret1"}, thrown \in AuthThrows})

Login ==
  AuthServes({LoginOutcome(auth, password, thrown) :
                password \in Passwords, thrown \in AuthThrows})

VerifyEmail ==
  AuthServes({VerifyEmailOutcome(auth, token, thrown) :
                token \in Presented, thrown \in AuthThrows})

ResendVerification ==
  /\ Len(auth.minted) < MaxTokens
  /\ AuthServes({ResendVerificationOutcome(auth, thrown, mailFails) :
                   thrown \in AuthThrows, mailFails \in BOOLEAN})

AdminSetUserStatus ==
  AuthServes({AdminSetUserStatusOutcome(auth, isVerified, thrown) :
                isVerified \in BOOLEAN, thrown \in AuthThrows})

ForgotPassword ==
  /\ Len(auth.minted) < MaxTokens
  /\ AuthServes({ForgotPasswordOutcome(auth, thrown, mailFails) :
                   thrown \in AuthThrows \cup {"clear"}, mailFails \in BOOLEAN})

ResetPassword ==
  AuthServes({ResetPasswordOutcome(auth, token, password, thrown) :
                token \in Presented, password \in Passwords, thrown \in AuthThrows})

\* time passes
Tick ==
  /\ auth.now + (ResetWindow \div 2) <= MaxClock
  /\ auth' = [auth EXCEPT !.now = @ + (ResetWindow \div 2)]
  /\ UNCHANGED <<users, categoryDb, posts, run, outstanding, feed, served, probe,
                 verified, trigger, reply, conc, client>>


\* ------------------------------------------------- frontend AuthProvider
\* The reducer state and the requests made through the axios instance api.
\* A request is [url, retry, parent, st]: retry is config._retry, parent is
\* the request whose response interceptor awaits this one (0 for none), st
\* is "sent", "waiting" (its interceptor awaits a refresh), "resolved" or
\* "rejected".

\* initialState
NoClient == [user |-> Undefined, token |-> Undefined, isAuthenticated |-> FALSE,
             reqs |-> <<>>]

NewRequest(url, parent) == [url |-> url, retry |-> FALSE, parent |-> parent, st |-> "sent"]

\* what the server may answer; 0 is no response at all.  POST /auth/refresh
\* answers 200 or 401, POST /auth/logout is behind authMiddleware
Statuses(url) == IF url = "/auth/refresh" THEN {0, 200, 401} ELSE {0, 200, 401, 500}

\* authReducer, LOGOUT
LoggedOut(c) == [c EXCEPT !.user = Undefined, !.token = Undefined,
                          !.isAuthenticated = FALSE]

\* request k fails for good: logout() ends in its finally; the caller of a
\* request nobody's interceptor awaits gets the error; the interceptor that
\* awaited a refresh calls logout() and rejects its own request
RECURSIVE Rejected(_, _)
Rejected(c, k) ==
  LET f == c.reqs[k]
      failed == [c EXCEPT !.reqs[k].st = "rejected"]
  IN  IF f.url = "/auth/logout" THEN LoggedOut(failed)
      ELSE IF f.parent = 0 THEN failed
      ELSE Rejected([failed EXCEPT !.reqs = Append(@, NewRequest("/auth/logout", 0))],
                    f.parent)

\* request k succeeds: logout() ends in its finally; after a refresh the
\* interceptor dispatches AUTH_SUCCESS with the new token and sends the
\* request it handles again
Resolved(c, k) ==
  LET f == c.reqs[k]
      ok == [c EXCEPT !.reqs[k].st = "resolved"]
  IN  IF f.url = "/auth/logout" THEN LoggedOut(ok)
      ELSE IF f.url = "/auth/refresh" /\ f.parent # 0
      THEN [ok EXCEPT !.token = "renewed", !.isAuthenticated = TRUE,
                      !.reqs[f.parent].st = "sent"]
      ELSE ok

\* the response interceptor on the answer to request k
Intercepted(c, k, status) ==
  IF status = 200 THEN Resolved(c, k)
  ELSE IF status = 401 /\ ~c.reqs[k].retry
  THEN [c EXCEPT !.reqs[k].retry = TRUE, !.reqs[k].st = "waiting",
                 !.reqs = Append(@, NewRequest("/auth/refresh", k))]
  ELSE Rejected(c, k)

\* the application sends a request through api
ClientCalls ==
  /\ Len(client.reqs) < MaxClientRequests
  /\ \A k \in 1..Len(client.reqs) : client.reqs[k].st \in {"resolved", "rejected"}
  /\ client' = [client EXCEPT !.reqs = Append(@, NewRequest("/posts", 0))]
  /\ UNCHANGED <<users, categoryDb, posts, run, outstanding, feed, served, probe,
                 verified, trigger, reply, conc, auth>>

\* the server answers request k and the interceptor runs
ClientAnswered(k) ==
  /\ k \in 1..Len(client.reqs)
  /\ client.reqs[k].st = "sent"
  /\ \E status \in Statuses(client.reqs[k].url) :
       /\ Len(Intercepted(client, k, status).reqs) <= MaxClientRequests
       /\ client' = Intercepted(client, k, status)
  /\ UNCHANGED <<users, categoryDb, posts, run, outstanding, feed, served, probe,
                 verified, trigger, reply, conc, auth>>


\* ---------------------------------------------------------- specification

UserStores == {[u \in {"alice"} |-> "user"],
               [u \in {"root", "alice"} |-> IF u = "root" THEN "admin" ELSE "user"]}

ProbeOff == [pc |-> "off", text |-> <<>>, result |-> NullResult]

\* what every specification starts from: an empty Post collection, no
\* activation of the pipeline, nothing in flight
Quiet ==
  /\ posts = <<>>
  /\ run = [r \in Runs |-> IdleRun]
  /\ outstanding = {}
  /\ served = 0
  /\ probe = ProbeOff
  /\ trigger = NoTrigger
  /\ reply = Unobserved
  /\ conc = NoConc
  /\ auth = NoAuth
  /\ client = NoClient

\* Spec: the pipeline, one activation at a time, against a source that
\* holds every article of Articles
Init ==
  /\ Quiet
  /\ users \in UserStores
  /\ verified = DOMAIN users
  /\ categoryDb \in {{}, {"Technology"}, {"Technology", "World"}}
  /\ feed = Articles

Next ==
  \/ \E r \in Runs : NoRunActive /\ StartRun(r)
  \/ \E r \in Runs : PipelineStep(r)

Spec == Init /\ [][Next]_vars

\* MixSpec: pipeline activations, one at a time, with authoring requests
\* served at any point in between their steps
MixInit ==
  /\ Quiet
  /\ users \in UserStores
  /\ verified = DOMAIN users
  /\ categoryDb = {"Technology", "World"}
  /\ feed = {[url |-> "u1", title |-> "Headline", description |-> "text"]}

MixNext ==
  \/ \E r \in Runs : NoRunActive /\ StartRun(r)
  \/ \E r \in Runs : PipelineStep(r)
  \/ served < MaxAuthoring /\ AuthoringRequest

MixSpec == MixInit /\ [][MixNext]_vars

\* AISpec: processWithAI and createNewsPost on every answer of the rewriter
\* of up to MaxTextLen tokens, and on answers whose title runs past the cap
Xs(n) == [i \in 1..n |-> "x"]

LongTitleTexts ==
  {<<"TITLE:", " ">> \o pad \o Xs(n) \o <<"\n", "SUMMARY:", " ", "x">> :
     n \in (TitleCap - 1)..(TitleCap + MaxOver), pad \in {<<>>, <<" ">>}}

AITexts ==
  UNION {[1..n -> Tokens] : n \in 0..MaxTextLen} \cup LongTitleTexts \cup {Thrown}

WithAdmin == [u \in {"root", "alice"} |-> IF u = "root" THEN "admin" ELSE "user"]

AIInit ==
  /\ posts = <<>>
  /\ run = [r \in Runs |-> IdleRun]
  /\ outstanding = {}
  /\ served = 0
  /\ users = WithAdmin
  /\ verified = DOMAIN users
  /\ trigger = NoTrigger
  /\ reply = NoReply
  /\ conc = NoConc
  /\ auth = NoAuth
  /\ client = NoClient
  /\ categoryDb = {"Technology"}
  /\ feed = {ProbeArticle}
  /\ probe \in {[pc |-> "generateContent", text |-> t, result |-> NullResult] :
                  t \in AITexts}

AINext == ProbeRewrite \/ ProbeSave

AISpec == AIInit /\ [][AINext]_vars

\* PostSpec: the post routes, one request at a time, on stores the routes
\* and createNewsPost have filled
SeedPost ==
  PreSave([NewPost(<<"x">>, <<"x">>, "alice", <<"Technology">>, FALSE, Undefined)
             EXCEPT !.likes = <<"alice", "root">>,
                    !.comments = <<[user |-> "root", content |-> <<"x">>]>>,
                    !.views = 9])

PostInit ==
  /\ posts \in {<<>>, <<SeedPost>>}
  /\ run = [r \in Runs |-> IdleRun]
  /\ outstanding = {}
  /\ served = 0
  /\ users = WithAdmin
  /\ verified = DOMAIN users
  /\ trigger = NoTrigger
  /\ reply = NoReply
  /\ conc = NoConc
  /\ auth = NoAuth
  /\ client = NoClient
  /\ categoryDb = {"Technology"}
  /\ feed = {ProbeArticle}
  /\ probe \in {[pc |-> "generateContent", text |-> t, result |-> NullResult] :
                  t \in {TextOk, TextNoSummary}}

PostNext ==
  \/ served < MaxUserOps /\ AuthoringRequest
  \/ served < MaxUserOps /\ EngagementRequest
  \/ ProbeRewrite
  \/ ProbeSave

PostSpec == PostInit /\ [][PostNext]_vars

\* LiveSpec: Spec, where every call an activation awaits settles (it
\* returns or throws) and every delay elapses
LiveInit ==
  /\ Quiet
  /\ users \in UserStores
  /\ verified = DOMAIN users
  /\ categoryDb = {"Technology", "World"}
  /\ feed = {[url |-> "u1", title |-> "Headline", description |-> "text"],
             [url |-> "u1", title |-> "[Removed]", description |-> "text"]}

LiveSpec == LiveInit /\ [][Next]_vars /\ \A r \in Runs : WF_vars(PipelineStep(r))

\* TriggerSpec: requests to the manual trigger, one at a time, by any
\* bearer, against stores with and without an admin and with and without
\* verified users
TriggerInit ==
  /\ posts = <<>>
  /\ run = [r \in Runs |-> IdleRun]
  /\ outstanding = {}
  /\ served = 0
  /\ probe = ProbeOff
  /\ trigger = NoTrigger
  /\ reply = NoReply
  /\ conc = NoConc
  /\ auth = NoAuth
  /\ client = NoClient
  /\ users \in UserStores \cup {[u \in {"root", "alice"} |-> "admin"]}
  /\ verified \in SUBSET DOMAIN users
  /\ categoryDb = {"Technology"}
  /\ feed = {[url |-> "u1", title |-> "Headline", description |-> "text"]}

TriggerNext ==
  \/ served < MaxUserOps /\ TriggerArrives
  \/ AuthSettles
  \/ PipelineStep("manual")

TriggerSpec == TriggerInit /\ [][TriggerNext]_vars

\* OverlapSpec: the cron job and the manual trigger call fetchAndProcessNews
\* with no regard for each other, so two activations may be in progress
OverlapInit ==
  /\ Quiet
  /\ users = WithAdmin
  /\ verified = DOMAIN users
  /\ categoryDb = {"Technology"}
  /\ feed = {[url |-> "u1", title |-> "Headline", description |-> "text"]}

OverlapNext ==
  \/ \E r \in Runs : StartRun(r)
  \/ \E r \in Runs : PipelineStep(r)

OverlapSpec == OverlapInit /\ [][OverlapNext]_vars

\* AuxSpec: categorizeContent and then generateTags applied to one answer
\* of the model of up to MaxAnswerLen tokens, beside create-post requests
AnswerTexts ==
  UNION {[1..n -> AnswerTokens] : n \in 0..MaxAnswerLen}
    \cup {Thrown, <<"world">>, <<" ", "Tech", "no", "logy", " ">>,
          <<"Tech", ",", "incomprehensibilities">>}

AuxInit ==
  /\ posts = <<>>
  /\ run = [r \in Runs |-> IdleRun]
  /\ outstanding = {}
  /\ served = 0
  /\ probe = ProbeOff
  /\ trigger = NoTrigger
  /\ reply = NoReply
  /\ conc = NoConc
  /\ auth = NoAuth
  /\ client = NoClient
  /\ users = WithAdmin
  /\ verified = DOMAIN users
  /\ categoryDb = {"Technology", "World"}
  /\ feed = {}

\* an answer arrives for the prompt of categorizeContent
AuxAsk ==
  /\ probe.pc = "off"
  /\ \E text \in AnswerTexts :
       probe' = [pc |-> "categorizeContent", text |-> text,
                 result |-> [categories |-> Undefined, tags |-> Undefined]]
  /\ UNCHANGED <<users, categoryDb, posts, run, outstanding, feed, served,
                 verified, trigger, reply, conc, auth, client>>

\* categorizeContent returns
AuxCategorize ==
  /\ probe.pc = "categorizeContent"
  /\ \E threw \in BOOLEAN : \E returned \in categorizeContent(probe.text, threw) :
       probe' = [probe EXCEPT !.pc = "generateTags", !.result.categories = returned]
  /\ UNCHANGED <<users, categoryDb, posts, run, outstanding, feed, served,
                 verified, trigger, reply, conc, auth, client>>

\* generateTags returns
AuxTags ==
  /\ probe.pc = "generateTags"
  /\ probe' = [probe EXCEPT !.pc = "done", !.result.tags = generateTags(probe.text)]
  /\ UNCHANGED <<users, categoryDb, posts, run, outstanding, feed, served,
                 verified, trigger, reply, conc, auth, client>>

AuxNext ==
  \/ AuxAsk
  \/ AuxCategorize
  \/ AuxTags
  \/ \E u \in DOMAIN users : served < MaxAuthoring /\ CreatePost(u)

AuxSpec == AuxInit /\ [][AuxNext]_vars

\* ClientSpec: a logged-in AuthProvider, its requests answered in any way
\* the server can answer
ClientInit ==
  /\ posts = <<>>
  /\ run = [r \in Runs |-> IdleRun]
  /\ outstanding = {}
  /\ served = 0
  /\ probe = ProbeOff
  /\ trigger = NoTrigger
  /\ reply = NoReply
  /\ conc = NoConc
  /\ auth = NoAuth
  /\ users = WithAdmin
  /\ verified = DOMAIN users
  /\ categoryDb = {"Technology"}
  /\ feed = {}
  /\ client = [NoClient EXCEPT !.user = "alice", !.token = "issued",
                               !.isAuthenticated = TRUE]

ClientNext ==
  \/ ClientCalls
  \/ \E k \in 1..MaxClientRequests : ClientAnswered(k)

ClientSpec == ClientInit /\ [][ClientNext]_vars

\* AuthSpec: the auth routes in any order, from no account or from a
\* verified one
AuthInit ==
  /\ posts = <<>>
  /\ run = [r \in Runs |-> IdleRun]
  /\ outstanding = {}
  /\ served = 0
  /\ probe = ProbeOff
  /\ trigger = NoTrigger
  /\ reply = NoReply
  /\ conc = NoConc
  /\ client = NoClient
  /\ users = WithAdmin
  /\ verified = DOMAIN users
  /\ categoryDb = {"Technology"}
  /\ feed = {}
  /\ auth \in {NoAuth,
               [NoAuth EXCEPT !.user = [NoUser EXCEPT !.exists = TRUE,
                                                      !.isVerified = TRUE,
                                                      !.password = Bcrypt("Secret1")]]}

AuthNext ==
  \/ Register
  \/ Login
  \/ VerifyEmail
  \/ ResendVerification
  \/ AdminSetUserStatus
  \/ ForgotPassword
  \/ ResetPassword
  \/ Tick

AuthSpec == AuthInit /\ [][AuthNext]_vars

\* ConcSpec: like, comment, share and view requests on one stored post,
\* up to MaxInFlight of them between lookup and save at once
LikedPost ==
  PreSave([NewPost(<<"x">>, <<"x">>, "alice", <<"Technology">>, FALSE, Undefined)
             EXCEPT !.likes = <<"root">>,
                    !.comments = <<[user |-> "root", content |-> <<"x">>]>>,
                    !.shares = 1,
                    !.views = 9])

ConcInit ==
  /\ run = [r \in Runs |-> IdleRun]
  /\ outstanding = {}
  /\ served = 0
  /\ probe = ProbeOff
  /\ trigger = NoTrigger
  /\ reply = NoReply
  /\ conc = NoConc
  /\ auth = NoAuth
  /\ client = NoClient
  /\ users = WithAdmin
  /\ verified = DOMAIN users
  /\ categoryDb = {"Technology"}
  /\ feed = {}
  /\ posts = <<LikedPost>>

ConcNext ==
  \/ \E s \in Slots, route \in ConcRoutes, user \in DOMAIN users, i \in 1..Len(posts) :
       served < MaxRequests /\ LookupSettles(s, route, user, i)
  \/ \E s \in Slots : WriteSettles(s)

ConcSpec == ConcInit /\ [][ConcNext]_vars

\* ------------------------------------------------------------------ claims

NoAdmin == \A u \in DOMAIN users : users[u] # "admin"

\* the article an activation is working on
Current(rec) == rec.articles[rec.artIdx]

ArticlePcs == {"Post.findOne", "generateContent", "post.save"}

\* the marker occurs nowhere in the text
LacksMarker(text, marker) == \A k \in 1..Len(text) : text[k] # marker

\* an article the source should not have sent: no or an empty title, the
\* placeholder title, no description
Rejectable(article) ==
  \/ article.title \in {Undefined, "", "[Removed]"}
  \/ article.description = Undefined

\* C1 (MixSpec): at most one post with isNews = true for any originalSource,
\* active or not, whatever runs and authoring requests came before.
C1_NewsSourceUnique ==
  \A i, j \in 1..Len(posts) :
    (/\ posts[i].isNews
     /\ posts[j].isNews
     /\ posts[i].originalSource = posts[j].originalSource) => i = j

\* a later run has met an article whose post an earlier run stored and a
\* request has since deactivated, and has passed it over
C1_Witness ==
  \E r \in Runs :
    /\ run[r].pc = "Post.findOne"
    /\ run[r].artIdx = 2
    /\ run[r].created = 0
    /\ run[r].failed = 0
    /\ \E i \in 1..Len(posts) :
         /\ posts[i].isNews
         /\ ~posts[i].isActive
         /\ posts[i].originalSource = run[r].articles[1].url

\* C2 (Spec): with no admin user an invocation only looks the admin up and
\* rejects: no topic is entered, no other call is ever in flight, no post
\* is stored.
C2_NoAdminRejectsFirst ==
  NoAdmin =>
    /\ posts = <<>>
    /\ \A c \in outstanding : c.call = "User.findOne"
    /\ \A r \in Runs :
         /\ run[r].pc \in {"idle", "User.findOne", "rejected"}
         /\ run[r].topicLog = <<>>
         /\ run[r].created = 0

C2_Witness == NoAdmin /\ \E r \in Runs : run[r].pc = "rejected"

\* C3 (Spec): post.save is awaited only for an article whose rewriter
\* answer holds both the TITLE: and the SUMMARY: marker.
C3_NoSaveWithoutMarkers ==
  \A r \in Runs :
    run[r].pc = "post.save" =>
      /\ ~LacksMarker(run[r].aiText, "TITLE:")
      /\ ~LacksMarker(run[r].aiText, "SUMMARY:")

\* an answer without one of the markers has come back and the run has gone
\* on without a post
C3_Witness ==
  \E r \in Runs :
    /\ run[r].pc = "delay"
    /\ run[r].aiText # <<>>
    /\ run[r].aiText # Thrown
    /\ LacksMarker(run[r].aiText, "TITLE:") \/ LacksMarker(run[r].aiText, "SUMMARY:")
    /\ run[r].created = 0
    /\ run[r].failed = 1

\* C4 (Spec): the rewriter is never called and save never awaited for an
\* article with an empty, missing or placeholder title or no description,
\* and no step taken while such an article is the current one stores a post.
C4_RejectedNeverRewritten ==
  /\ [](\A r \in Runs :
          run[r].pc \in {"generateContent", "post.save"} => ~Rejectable(Current(run[r])))
  /\ [][\A r \in Runs :
          (run[r].pc \in ArticlePcs /\ Rejectable(Current(run[r]))) => posts' = posts]_vars

\* the first article of an answer was one of those and the loop is at the
\* second, with nothing counted, stored or rewritten
C4_Witness ==
  \E r \in Runs :
    /\ run[r].pc = "Post.findOne"
    /\ run[r].artIdx = 2
    /\ Rejectable(run[r].articles[1])
    /\ run[r].aiText = <<>>
    /\ run[r].failed = 0
    /\ run[r].success = 0
    /\ posts = <<>>

\* a run's success equals the posts it has stored
C5_CountMatches == \A r \in Runs : run[r].success = run[r].created

\* C5 as claimed (Spec): success equals the posts stored by the run, and
\* every article that reached save (it passed dedup and rejection and was
\* rewritten) gives one new post and one more success.
C5_Original ==
  /\ []C5_CountMatches
  /\ [][\A r \in Runs :
          (run[r].pc = "post.save" /\ run'[r].pc # "post.save") =>
            /\ Len(posts') = Len(posts) + 1
            /\ run'[r].success = run[r].success + 1]_vars

\* C5 amended (Spec): success equals the posts stored by the run; an
\* article that reached save gives one new post and one more success when
\* the save resolves, and no post, the same success and one more failed
\* when the save throws.
C5_Amended ==
  /\ []C5_CountMatches
  /\ [][\A r \in Runs :
          (run[r].pc = "post.save" /\ run'[r].pc # "post.save") =>
            \/ /\ Len(posts') = Len(posts) + 1
               /\ run'[r].success = run[r].success + 1
               /\ run'[r].failed = run[r].failed
            \/ /\ posts' = posts
               /\ run'[r].success = run[r].success
               /\ run'[r].failed = run[r].failed + 1]_vars

\* one valid new article, rewritten and saved: {success: 1, failed: 0} and
\* one new news post in the topic's category
C5_Witness ==
  \E r \in Runs :
    /\ run[r].pc = "returned"
    /\ run[r].success = 1
    /\ run[r].failed = 0
    /\ Len(posts) = 1
    /\ posts[1].isNews
    /\ posts[1].categories = <<"Technology">>

\* C6 (Spec): when processWithAI returns no result for the current article
\* (the answer is malformed or the call threw), that step adds one to
\* failed, leaves success alone, stores no post and does not go on to save.
C6_RewriteFailureCounted ==
  [][\A r \in Runs :
       (/\ run[r].pc = "generateContent"
        /\ run'[r].pc # "generateContent"
        /\ ~processWithAI(Current(run[r]), run'[r].aiText).ok) =>
         /\ run'[r].failed = run[r].failed + 1
         /\ run'[r].success = run[r].success
         /\ run'[r].created = run[r].created
         /\ run'[r].pc # "post.save"
         /\ posts' = posts]_vars

\* one valid new article whose answer omits SUMMARY:: {success: 0,
\* failed: 1} and no post
C6_Witness ==
  \E r \in Runs :
    /\ run[r].pc = "returned"
    /\ run[r].aiText = TextNoSummary
    /\ run[r].success = 0
    /\ run[r].failed = 1
    /\ posts = <<>>

C8_TitleWithinLimit ==
  /\ probe.result.ok => Len(probe.result.title) <= 200
  /\ probe.pc # "title rejected"
  /\ \A i \in 1..Len(posts) : posts[i].isNews => Len(posts[i].title) <= 200

\* an answer whose title runs past 200 characters was rewritten and stored
C8_Witness ==
  /\ probe.pc = "saved"
  /\ Len(MatchLine(probe.text, "TITLE:").group) > 200
  /\ Len(posts[1].title) = 200

\* C9 (PostSpec): every stored post's engagement is likes * 3 + comments * 5
\* + shares * 7 + views * 0.1 of its stored fields (both sides in tenths).
C9_EngagementIsFormula ==
  \A i \in 1..Len(posts) :
    posts[i].engagement =
      30 * Len(posts[i].likes) + 50 * Len(posts[i].comments)
        + 70 * posts[i].shares + posts[i].views

\* likes = 2, comments = 1, shares = 0, views = 10 after a view: 12
C9_Witness ==
  /\ served >= 1
  /\ \E i \in 1..Len(posts) :
       /\ Len(posts[i].likes) = 2
       /\ Len(posts[i].comments) = 1
       /\ posts[i].shares = 0
       /\ posts[i].views = 10
       /\ posts[i].engagement = 120

\* C10 (Spec): an activation has at most one call in flight and at most one
\* topic open; topics are entered in the order of the configured list and
\* articles in the order of the answer.
C10_Sequential ==
  \A r \in Runs :
    /\ Cardinality({c \in outstanding : c.run = r}) <= 1
    /\ Cardinality(run[r].open) <= 1
    /\ run[r].open \subseteq {run[r].topicIdx}
    /\ run[r].topicLog = SubSeq(categories, 1, Len(run[r].topicLog))
    /\ run[r].examined = [k \in 1..Len(run[r].examined) |-> k]
    /\ run[r].pc \in ArticlePcs => run[r].open = {run[r].topicIdx}

\* the second article of the last topic is being rewritten
C10_Witness ==
  \E r \in Runs :
    /\ run[r].pc = "generateContent"
    /\ run[r].topicIdx = Len(categories)
    /\ run[r].artIdx = 2
    /\ outstanding = {[run |-> r, call |-> "generateContent"]}


\* the one response of the request that has been answered
Answer == trigger.responses[1]

\* C11 (TriggerSpec): the manual trigger sends nothing while it is being
\* authenticated or while its run is in progress, and one response once
\* answered; the step that answers a request whose run was started finds
\* that run finished, and sends 200 with the run's counts when it returned
\* and 500 without counts when it rejected.
C11_RespondsAfterRun ==
  /\ [](trigger.pc \in {"none", "User.findById", "fetchAndProcessNews"} =>
          trigger.responses = <<>>)
  /\ [](trigger.pc = "done" => Len(trigger.responses) = 1)
  /\ [](trigger.pc = "fetchAndProcessNews" => run["manual"].pc # "idle")
  /\ [][(trigger.pc = "fetchAndProcessNews" /\ trigger'.pc # "fetchAndProcessNews") =>
          /\ Finished(run["manual"])
          /\ trigger'.pc = "done"
          /\ run["manual"].pc = "returned" =>
               trigger'.responses =
                 <<[status |-> 200,
                    data |-> [success |-> run["manual"].success,
                              failed |-> run["manual"].failed]]>>
          /\ run["manual"].pc = "rejected" =>
               trigger'.responses = <<[status |-> 500, data |-> Undefined]>>]_vars

\* a request was answered with the counts of a run that stored a post and
\* counted a failure
C11_Witness ==
  /\ trigger.pc = "done"
  /\ Answer.status = 200
  /\ Answer.data.success = 1
  /\ Answer.data.failed >= 1
  /\ Len(posts) = 1

\* the bearer of the request is a stored, verified user
Authenticated ==
  /\ trigger.token \in DOMAIN users
  /\ trigger.token \in verified

\* C12 as claimed (TriggerSpec), its clause on the role: every answered
\* request of a stored, verified user with role user was answered 403.
C12_Original ==
  (trigger.pc = "done" /\ Authenticated /\ users[trigger.token] = "user") =>
    Answer.status = 403

\* C12 amended (TriggerSpec): the handler calls fetchAndProcessNews only for
\* a stored, verified user with role admin; a request with no or an invalid
\* token or of an unverified user is answered 401; one of a verified user
\* with role user is answered 403 when the lookup of its user returned and
\* 401 when that lookup threw; the step that sends 401 or 403 starts no run
\* and stores no post.
C12_Amended ==
  /\ [](trigger.pc = "fetchAndProcessNews" =>
          Authenticated /\ users[trigger.token] = "admin")
  /\ [](trigger.pc = "done" /\ ~Authenticated =>
          trigger.user = Undefined /\ Answer.status = 401)
  /\ [](trigger.pc = "done" /\ Authenticated /\ users[trigger.token] = "user" =>
          Answer.status = IF trigger.user = Undefined THEN 401 ELSE 403)
  /\ [][(trigger'.pc = "done" /\ trigger.pc # "done"
          /\ trigger'.responses[1].status \in {401, 403}) =>
            /\ run["manual"].pc = "idle"
            /\ UNCHANGED <<run, outstanding, posts, reply, conc, auth, client>>]_vars

\* a verified user without the admin role was answered 403 after an admin's
\* request had run the pipeline
C12_Witness ==
  /\ trigger.pc = "done"
  /\ Authenticated
  /\ users[trigger.token] = "user"
  /\ Answer.status = 403
  /\ Len(posts) >= 1


\* the stored news posts whose originalSource is url
NewsPostsOf(url) ==
  {i \in 1..Len(posts) : posts[i].isNews /\ posts[i].originalSource = url}

\* C13 (OverlapSpec): with two activations in progress at once, both can
\* pass the dedup lookup for one URL before either has saved, and two news
\* posts with that originalSource are stored; there are never more news
\* posts for one URL than activations that can be in progress at once.
C13_DuplicateByOverlap ==
  \A url \in Urls : Cardinality(NewsPostsOf(url)) <= Cardinality(Runs)

\* two news posts with the same originalSource are stored, one by each
\* activation
C13_Witness ==
  /\ \E url \in Urls : Cardinality(NewsPostsOf(url)) = 2
  /\ \A r \in Runs : run[r].created = 1

\* C14 as claimed (Spec): within an activation, every step that starts the
\* next topic is the end of the pacing delay, whether the topic before it
\* returned (posts stored, topic or articles skipped) or threw.
C14_DelayBetweenTopics ==
  [][\A r \in Runs :
       (run[r].topicIdx >= 1 /\ run'[r].topicIdx = run[r].topicIdx + 1) =>
         run[r].pc = "delay"]_vars

\* the lookups and the source call of processCategoryNews before its
\* article loop
TopicPcs == {"Category.findOne", "newsApi.everything"}

\* C15 (Spec): when Category.findOne or the source call throws for a topic,
\* that step adds one to failed and nothing to success, does not reject the
\* invocation, and goes on to the next topic of the list (or returns after
\* the last); no article of the topic was examined and no post stored for
\* it; a run that returns has called processCategoryNews for every topic.
C15_TopicErrorCounted ==
  /\ [][\A r \in Runs :
          (/\ run[r].pc \in TopicPcs
           /\ run'[r] # run[r]
           /\ run'[r].last \in {"Category.findOne threw", "source threw"}) =>
            /\ run'[r].failed = run[r].failed + 1
            /\ run'[r].success = run[r].success
            /\ run'[r].created = run[r].created
            /\ posts' = posts
            /\ run[r].examined = <<>>
            /\ run[r].doc = NoPost
            /\ IF run[r].topicIdx < Len(categories)
               THEN /\ run'[r].pc = "Category.findOne"
                    /\ run'[r].topicIdx = run[r].topicIdx + 1
               ELSE run'[r].pc = "returned"]_vars
  /\ [](\A r \in Runs :
          run[r].last \in {"Category.findOne threw", "source threw"} =>
            run[r].pc \in {"Category.findOne", "returned"})
  /\ [](\A r \in Runs : run[r].pc = "returned" => run[r].topicLog = categories)

\* the source call has thrown for the first topic: one failure is counted,
\* nothing is stored and the second topic's category is being looked up
C15_Witness ==
  \E r \in Runs :
    /\ run[r].last = "source threw"
    /\ run[r].pc = "Category.findOne"
    /\ run[r].topicLog = <<"Technology", "Politics">>
    /\ run[r].failed = 1
    /\ run[r].success = 0
    /\ posts = <<>>

\* the step of run r in which the source answers with no articles
NoArticlesStep(r) ==
  /\ run[r].pc = "newsApi.everything"
  /\ run'[r] # run[r]
  /\ run'[r].last = "no articles"

\* C16 as claimed (Spec): the step in which the source answers a topic with
\* zero articles adds one to failed.
C16_Original ==
  [][\A r \in Runs : NoArticlesStep(r) => run'[r].failed = run[r].failed + 1]_vars

\* C16 amended (Spec): the step in which the source answers a topic with
\* zero articles leaves failed as it was, and the loop continues: the run
\* is at the delay before the next topic.
C16_Amended ==
  /\ [][\A r \in Runs :
          NoArticlesStep(r) =>
            /\ run'[r].failed = run[r].failed
            /\ run'[r].pc = "delay"
            /\ run'[r].topicIdx = run[r].topicIdx]_vars
  /\ [](\A r \in Runs : run[r].last = "no articles" => run[r].pc = "delay")

\* the source had no articles for the first topic, whose category is
\* stored: the run is at the delay with nothing counted
C16_Witness ==
  \E r \in Runs :
    /\ run[r].last = "no articles"
    /\ run[r].pc = "delay"
    /\ run[r].topicIdx = 1
    /\ run[r].dbCategory = "Technology"
    /\ run[r].failed = 0

\* C17 (Spec): when the source answers a topic with zero articles or with
\* no article list, processCategoryNews returns without an error: that step
\* changes neither success nor failed, stores no post, issues no rewriter
\* call and examines no article, and the run is not rejected.
C17_NoArticlesNoEffect ==
  [][\A r \in Runs :
       NoArticlesStep(r) =>
         /\ run'[r].success = run[r].success
         /\ run'[r].failed = run[r].failed
         /\ posts' = posts
         /\ run'[r].created = run[r].created
         /\ run'[r].examined = <<>>
         /\ run[r].examined = <<>>
         /\ \A c \in outstanding' : c.run = r => c.call \notin ArticlePcs
         /\ ~Finished(run'[r])]_vars

\* the source had no articles for the last topic, whose category is stored:
\* the counts and the Post store are those the first topic left
C17_Witness ==
  \E r \in Runs :
    /\ run[r].last = "no articles"
    /\ run[r].pc = "delay"
    /\ run[r].topicIdx = Len(categories)
    /\ run[r].dbCategory = "World"
    /\ run[r].success = 1
    /\ run[r].failed = 0
    /\ Len(posts) = 1
    /\ posts[1].categories = <<"Technology">>

\* C18 (Spec): a topic with no stored Category of its name is skipped: the
\* step in which the lookup finds none changes neither counter, stores no
\* post and leaves the run at the delay before the next topic; the source,
\* the Post store and the rewriter are only ever called for a topic whose
\* Category is stored, and a run that returns has gone through every topic.
C18_MissingCategorySkipped ==
  /\ [][\A r \in Runs :
          (/\ run[r].pc = "Category.findOne"
           /\ run'[r] # run[r]
           /\ run'[r].last = "no category") =>
            /\ categories[run[r].topicIdx] \notin categoryDb
            /\ run'[r].success = run[r].success
            /\ run'[r].failed = run[r].failed
            /\ posts' = posts
            /\ run'[r].pc = "delay"
            /\ run'[r].topicIdx = run[r].topicIdx]_vars
  /\ [](\A r \in Runs :
          run[r].pc \in {"newsApi.everything"} \cup ArticlePcs =>
            /\ categories[run[r].topicIdx] \in categoryDb
            /\ run[r].dbCategory = categories[run[r].topicIdx])
  /\ [](\A i \in 1..Len(posts) :
          posts[i].isNews => \A k \in 1..Len(posts[i].categories) :
                               posts[i].categories[k] \in categoryDb)
  /\ [](\A r \in Runs :
          run[r].pc = "returned" => Len(run[r].topicLog) = Len(categories))

\* the first topic stored a post, the six topics after it have no stored
\* Category and were skipped with nothing counted, and the source call of
\* the eighth is in flight
C18_Witness ==
  \E r \in Runs :
    /\ categoryDb = {"Technology", "World"}
    /\ run[r].pc = "newsApi.everything"
    /\ run[r].topicIdx = Len(categories)
    /\ run[r].success = 1
    /\ run[r].failed = 0
    /\ Len(posts) = 1

\* the step of run r in which the dedup lookup settles and the article is
\* passed over for the reason `why`
SkipStep(r, why) ==
  /\ run[r].pc = "Post.findOne"
  /\ run'[r] # run[r]
  /\ run'[r].last = why

\* C19 as claimed (Spec): the content test comes before the existence
\* query, so no dedup lookup is ever in flight for an article with a
\* missing, empty or placeholder title or a missing description.
C19_Original ==
  \A r \in Runs : run[r].pc = "Post.findOne" => ~Rejectable(Current(run[r]))

\* C19 amended (Spec): for each article the steps run in the order dedup
\* lookup, content test, rewrite, save.  Every article starts with the
\* lookup; an article is passed over as rejected only after its lookup
\* found no post, and as existing whatever its content; the rewriter is
\* called only from a settled lookup and the save only from a settled
\* rewrite, for an article that is neither stored nor rejectable.
C19_Amended ==
  /\ [][\A r \in Runs :
          (run'[r].artIdx # run[r].artIdx /\ run'[r].artIdx >= 1) =>
            run'[r].pc = "Post.findOne"]_vars
  /\ [][\A r \in Runs :
          SkipStep(r, "rejected") =>
            /\ Rejectable(Current(run[r]))
            /\ NewsPostsOf(Current(run[r]).url) = {}]_vars
  /\ [][\A r \in Runs :
          SkipStep(r, "exists") => NewsPostsOf(Current(run[r]).url) # {}]_vars
  /\ [][\A r \in Runs :
          /\ (run'[r].pc = "generateContent" /\ run[r].pc # "generateContent") =>
               (run[r].pc = "Post.findOne" /\ run'[r].artIdx = run[r].artIdx)
          /\ (run'[r].pc = "post.save" /\ run[r].pc # "post.save") =>
               (run[r].pc = "generateContent" /\ run'[r].artIdx = run[r].artIdx)]_vars
  /\ [](\A r \in Runs :
          run[r].pc \in {"generateContent", "post.save"} =>
            /\ ~Rejectable(Current(run[r]))
            /\ NewsPostsOf(Current(run[r]).url) = {})

\* the dedup lookup is in flight for an article with the placeholder title
\* whose URL a news post already has
C19_Witness ==
  \E r \in Runs :
    /\ run[r].pc = "Post.findOne"
    /\ [run |-> r, call |-> "Post.findOne"] \in outstanding
    /\ Current(run[r]).title = "[Removed]"
    /\ NewsPostsOf(Current(run[r]).url) # {}

\* C20 (Spec): the step that passes an article over, because its content is
\* rejected or because a news post with its URL exists, changes neither
\* success nor failed and stores nothing; the run goes on to the next
\* article or to the end of the topic.
C20_SkipsNotCounted ==
  [][\A r \in Runs :
       (SkipStep(r, "rejected") \/ SkipStep(r, "exists")) =>
         /\ run'[r].success = run[r].success
         /\ run'[r].failed = run[r].failed
         /\ run'[r].created = run[r].created
         /\ posts' = posts
         /\ IF run[r].artIdx < Len(run[r].articles)
            THEN run'[r].pc = "Post.findOne" /\ run'[r].artIdx = run[r].artIdx + 1
            ELSE run'[r].pc = "delay"]_vars

\* a run after the one that stored a post has passed over every article of
\* an answer, the last of them for its content, with nothing counted
C20_Witness ==
  \E r \in Runs :
    /\ run[r].last = "rejected"
    /\ run[r].pc = "delay"
    /\ Len(run[r].topicLog) = 1
    /\ run[r].success = 0
    /\ run[r].failed = 0
    /\ Len(posts) = 1

\* run r takes a step
Steps(r) == run'[r] # run[r]

\* C21 (Spec): the rewriter call of an article is issued only by the step
\* that settles the article's dedup lookup, for an article that is neither
\* rejectable nor stored, and the step that settles it leaves the article
\* for its save or for a later article or the end of the topic, never for
\* the rewriter again; the source call of a topic is issued only by the
\* step that settles the topic's Category lookup and the step that settles
\* it leaves the source for good in that topic; article indexes within a
\* topic and topic indexes within a run only grow.
C21_NoRetry ==
  [][\A r \in Runs :
       /\ (Steps(r) /\ run'[r].pc = "generateContent") =>
            /\ run[r].pc = "Post.findOne"
            /\ run'[r].artIdx = run[r].artIdx
            /\ run'[r].topicIdx = run[r].topicIdx
            /\ ~Rejectable(Current(run[r]))
            /\ NewsPostsOf(Current(run[r]).url) = {}
       /\ (Steps(r) /\ run[r].pc = "generateContent") =>
            \/ run'[r].pc = "post.save" /\ run'[r].artIdx = run[r].artIdx
            \/ run'[r].pc = "Post.findOne" /\ run'[r].artIdx = run[r].artIdx + 1
            \/ run'[r].pc = "delay"
       /\ (Steps(r) /\ run[r].pc = "post.save") =>
            \/ run'[r].pc = "Post.findOne" /\ run'[r].artIdx = run[r].artIdx + 1
            \/ run'[r].pc = "delay"
       /\ (Steps(r) /\ run'[r].pc = "newsApi.everything") =>
            /\ run[r].pc = "Category.findOne"
            /\ run'[r].topicIdx = run[r].topicIdx
       /\ (Steps(r) /\ run[r].pc \in {"newsApi.everything"} \cup ArticlePcs) =>
            /\ run'[r].pc \notin {"newsApi.everything", "Category.findOne"}
                 \/ run'[r].topicIdx = run[r].topicIdx + 1
            /\ run'[r].pc # "newsApi.everything"
       /\ (Steps(r) /\ run[r].pc = "delay") =>
            \/ run'[r].pc = "Category.findOne" /\ run'[r].topicIdx = run[r].topicIdx + 1
            \/ run'[r].pc = "returned"]_vars

\* the rewriter's answer to the first of two articles was malformed: one
\* failure is counted and the lookup of the second article is in flight
C21_Witness ==
  \E r \in Runs :
    /\ run[r].pc = "Post.findOne"
    /\ run[r].artIdx = 2
    /\ run[r].aiText = TextNoSummary
    /\ run[r].failed = 1
    /\ run[r].success = 0
    /\ run[r].last = ""
    /\ posts = <<>>

\* C22 (Spec): the post a run stores has isNews = true, the url of the
\* article being worked on as originalSource, the admin the run resolved
\* at its start as author, and the one Category resolved for the current
\* topic as categories; a run keeps the admin it resolved until it ends.
C22_NewsPostFields ==
  [][\A r \in Runs :
       /\ (Steps(r) /\ run[r].pc = "post.save" /\ Len(posts') = Len(posts) + 1) =>
            LET post == posts'[Len(posts')]
            IN  /\ post.isNews
                /\ post.originalSource = Current(run[r]).url
                /\ post.author = run[r].adminUserId
                /\ post.author \in DOMAIN users
                /\ users[post.author] = "admin"
                /\ post.categories = <<run[r].dbCategory>>
                /\ run[r].dbCategory = categories[run[r].topicIdx]
                /\ run[r].dbCategory \in categoryDb
                /\ SubSeq(posts', 1, Len(posts)) = posts
       /\ (Steps(r) /\ run[r].adminUserId # Undefined /\ run'[r].pc # "idle") =>
            run'[r].adminUserId = run[r].adminUserId]_vars

\* one run has stored a post under each of the two topics that have a
\* Category, both by the same admin
C22_Witness ==
  /\ Len(posts) = 2
  /\ posts[1].categories = <<"Technology">>
  /\ posts[2].categories = <<"World">>
  /\ posts[1].originalSource # posts[2].originalSource
  /\ posts[1].author = "root"
  /\ posts[2].author = "root"
  /\ \E r \in Runs : run[r].created = 2

\* C23: in every reachable state, also those reached by overlapping like
\* requests, the likes of a post hold at most one entry per user.
\* Violated: two like requests of one user that both load the post before
\* either saves each push the user onto the stored list.
C23_LikesUniquePerUser ==
  \A i \in 1..Len(posts) :
    \A k, l \in 1..Len(posts[i].likes) :
      posts[i].likes[k] = posts[i].likes[l] => k = l

\* C26: after n successful share requests and m successful view requests on
\* an active post, in any interleaving, shares is its initial value plus n
\* and views its initial value plus m.
\* Violated: two share requests that both load the post before either saves
\* both store the loaded value plus one.
C26_CountersNotLost ==
  (\A s \in Slots : conc.slots[s].pc = "idle") /\ Len(posts) = 1 =>
    /\ posts[1].shares = LikedPost.shares + conc.ok.share
    /\ posts[1].views = LikedPost.views + conc.ok.view

\* a PUT body that passes createPostValidation
ValidBody(body) == Len(Trim(body.content)) > 0

\* the accounts that are neither the author of post i nor an admin
Others(i) == {u \in DOMAIN users : u # posts[i].author /\ users[u] # "admin"}

C28_Original ==
  \A i \in 1..Len(posts) : ~posts[i].isActive =>
    \A u \in DOMAIN users, thrown \in Throws :
      LET gone == Outcome(posts, 404)
      IN  /\ GetPostOutcome(i, thrown) = gone
          /\ LikePostOutcome(u, i, thrown) = gone
          /\ SharePostOutcome(u, i, thrown) = gone
          /\ \A k \in 0..Len(posts[i].comments) :
               DeleteCommentOutcome(u, i, k, thrown) = gone
          /\ \A content \in {<<>>, <<"x">>} :
               CommentPostOutcome(u, i, content, thrown) = gone
          /\ \A reason \in ReportReasons :
               ReportPostOutcome(u, i, reason, thrown) = gone

\* C28: for an inactive post the view, like, comment, delete-comment, share
\* and report routes change nothing; they answer 404, except 400 from
\* comment and report for a body that fails validation and 500 when the
\* lookup throws.
C28_Amended ==
  \A i \in 1..Len(posts) : ~posts[i].isActive =>
    \A u \in DOMAIN users, thrown \in Throws :
      LET gone == Outcome(posts, IF thrown = "findById" THEN 500 ELSE 404)
          invalid == Outcome(posts, 400)
      IN  /\ GetPostOutcome(i, thrown) = gone
          /\ LikePostOutcome(u, i, thrown) = gone
          /\ SharePostOutcome(u, i, thrown) = gone
          /\ \A k \in 0..Len(posts[i].comments) :
               DeleteCommentOutcome(u, i, k, thrown) = gone
          /\ \A content \in {<<>>, <<"x">>} :
               CommentPostOutcome(u, i, content, thrown) =
                 IF Len(Trim(content)) = 0 THEN invalid ELSE gone
          /\ \A reason \in ReportReasons :
               ReportPostOutcome(u, i, reason, thrown) =
                 IF Len(Trim(reason)) = 0 THEN invalid ELSE gone

\* a like of the deleted post was answered 404 and the post is as it was
\* when it was deleted
C28_Witness ==
  /\ reply = [route |-> "POST /:id/like", post |-> 1, status |-> 404]
  /\ posts = <<[SeedPost EXCEPT !.isActive = FALSE]>>

\* C24: categorizeContent returns [] or the id of one stored category, and
\* [] whenever the model call fails or its answer matches no stored
\* category name; generateTags returns [] on failure; neither throws, and a
\* create-post request without categories whose save goes through is
\* answered 201 whatever the two calls returned.
C24_BestEffort ==
  /\ probe.pc \in {"generateTags", "done"} =>
       LET returned == probe.result.categories
           category == Trim(probe.text)
       IN  /\ returned # Thrown
           /\ returned \in {<<>>} \cup {<<c>> : c \in categoryDb}
           /\ probe.text = Thrown => returned = <<>>
           /\ (\A c \in categoryDb : ~RegExpFinds(category, c)) => returned = <<>>
  /\ probe.pc = "done" =>
       LET tags == probe.result.tags
       IN  /\ tags # <<Thrown>>
           /\ probe.text = Thrown => tags = <<>>
           /\ \A k \in 1..Len(tags) : Length(tags[k]) \in 1..TagMaxLength
  /\ \A u \in DOMAIN users, body \in PostBodies :
       Len(body.categories) = 0 /\ Len(Trim(body.content)) > 0 =>
         \A aiCategories \in CategorizeAnswers \cup {Thrown},
            aiTags \in TagAnswers \cup {<<Thrown>>} :
           LET out == CreatePostOutcome(u, body, aiCategories, aiTags, FALSE)
           IN  /\ out.status = 201
               /\ Len(out.store) = Len(posts) + 1
               /\ out.store[Len(out.store)].categories =
                    IF aiCategories = Thrown THEN <<>> ELSE aiCategories

\* both calls have returned [] for a model call that threw, and a post
\* created without categories has the category the model's answer named
C24_Witness ==
  /\ probe.pc = "done"
  /\ probe.text = Thrown
  /\ probe.result = [categories |-> <<>>, tags |-> <<>>]
  /\ Len(posts) = 1
  /\ posts[1].categories = <<"World">>
  /\ reply.status = 201

\* C25: handling a 401 in the AuthProvider terminates: a refresh request
\* that fails makes the interceptor issue no further refresh request.
\* Violated: the refresh request goes through the same interceptor with a
\* config of its own, so its 401 is answered with another refresh request,
\* and so on for as long as the server answers 401.
C25_FailedRefreshEnds ==
  \A k \in 1..Len(client.reqs) :
    LET parent == client.reqs[k].parent
    IN  parent # 0 => client.reqs[parent].url # "/auth/refresh"

\* the tokens of a kind that came to one of the given ends
Ended(kind, fates) ==
  {t \in 1..Len(auth.minted) :
     auth.minted[t].kind = kind /\ auth.minted[t].fate \in fates}

\* C29 as claimed: login issues an access token and the refresh cookie
\* only when the stored isVerified is true, and a verification token that
\* has verified the account, or that resend-verification has replaced, is
\* rejected with 400.
\* Violated: when the lookup of the user throws the answer is 500.
C29_Original ==
  /\ \A password \in Passwords, thrown \in AuthThrows :
       LoginOutcome(auth, password, thrown).last.issued => auth.user.isVerified
  /\ auth.last.issued => auth.user.isVerified
  /\ \A token \in Ended("verify", {"used", "replaced"}), thrown \in AuthThrows :
       VerifyEmailOutcome(auth, token, thrown) = Says(auth, "verify-email", 400)

\* C29: login issues an access token and the refresh cookie only when the
\* stored isVerified is true, and a verification token that has verified
\* the account, or that resend-verification has replaced, verifies nothing
\* again: it is rejected with 400, or with 500 when the lookup throws.
C29_Amended ==
  /\ \A password \in Passwords, thrown \in AuthThrows :
       LoginOutcome(auth, password, thrown).last.issued => auth.user.isVerified
  /\ auth.last.issued => auth.user.isVerified
  /\ \A token \in Ended("verify", {"used", "replaced"}), thrown \in AuthThrows :
       VerifyEmailOutcome(auth, token, thrown) =
         Says(auth, "verify-email", IF thrown = "findOne" THEN 500 ELSE 400)

\* the token of the registration was replaced by resend-verification, the
\* new one has verified the account, and a verify-email after that was
\* answered 400 while the account stays verified
C29_Witness ==
  /\ Len(auth.minted) = 2
  /\ auth.minted[1].fate = "replaced"
  /\ auth.minted[2].fate = "used"
  /\ auth.user.isVerified
  /\ auth.last = [route |-> "verify-email", status |-> 400, issued |-> FALSE]

\* the reset tokens whose time has run out
Expired == {t \in Ended("reset", {"live", "used", "replaced", "unsent"}) :
              auth.now > auth.minted[t].at + ResetWindow}

\* every password change was made with a token not used before, less than
\* ResetWindow minutes after the token was minted
OnceAndInTime ==
  \A i \in 1..Len(auth.changes) :
    /\ \A j \in 1..Len(auth.changes) : auth.changes[j].token = auth.changes[i].token => j = i
    /\ auth.changes[i].at < auth.minted[auth.changes[i].token].at + ResetWindow

=============================================================================
